---- MODULE Spec2Model ----
(***************************************************************************)
(* Object-graph mapping of the schema package (src/unnamed/part_001,       *)
(* lines 75-1139): field rules, WriteAsQuads, and the LoadTo family with   *)
(* its context checks.  The quad, path and iterator packages are not part  *)
(* of the sources at hand; what the schema code needs from them is         *)
(* modelled from the specification and marked as such in the model map.    *)
(***************************************************************************)
EXTENDS Integers, Sequences, FiniteSets, TLC

VARIABLES
    c,            \* the Config: [IRIs, GenerateID, Label, rulesForType, pathForType, pathForTypeRoot]
    pkgGenerateID,\* the package-level GenerateID hook ("nil" when unset)
    typeToIRI,    \* the registry of RegisterType, type -> IRI as given
    iriToType,    \* the registry of RegisterType, full IRI -> type
    store,        \* the quad store: the set of quads it holds
    wrote,        \* the WriteAsQuads calls made: a sequence of [o, id, err, quads, gens]
    ctxState,     \* the context of the load: "live", "canceled" or "deadline"
    call,         \* the LoadToDepth call: [active, et, kind, depth, ids]
    stack,        \* frames of loadIteratorToDepth / loadToValue, innermost last
    ret,          \* [err, val] handed from a returning frame to its caller
    dst,          \* the caller's destination: [single, seq, closed]
    outcome,      \* [done, err] of the LoadToDepth call
    hist,         \* observations of the run that the properties refer to
    locks,        \* rulesForTypeMu and pathForTypeMu: [r: the readers, w: the writer or 0]
    gos,          \* the goroutines that call rulesFor / makePathForType on the Config
    handle,       \* the Handle on the store and its writer, and its Close call
    iter,         \* the Count iterator under test, its children and what its calls returned
    probe         \* a struct field handed to fieldRule, and what fieldRule returned

vars == <<c, pkgGenerateID, typeToIRI, iriToType, store, wrote, ctxState, call, stack, ret,
          dst, outcome, hist, locks, gos, handle, iter, probe>>

\* the state of the callers that run beside a write or a load, and of the Handle
aux == <<locks, gos, handle, iter, probe>>

-----------------------------------------------------------------------------
(* Bounds of the model *)

\* WriteAsQuads calls per behaviour
MaxWrites == 1
\* RegisterType calls per behaviour
MaxRegs == 1
\* quads an external writer adds to the store before a load
MaxRaw == 3
\* RegisterType calls of a program that only registers
MaxRegCalls == 5
\* goroutines that use one Config at the same time
NumGo == 2
\* rulesFor / makePathForType calls per goroutine
MaxJobs == 2
\* Next calls on a Count iterator between two resets
MaxNexts == 2
\* Reset calls on a Count iterator
MaxResets == 1
\* modifiers after the first comma of a quad tag
MaxMods == 2
\* the largest depth LoadToDepth is called with
MaxDepth == 2

-----------------------------------------------------------------------------
(* Values: quad.IRI, quad.BNode, quad.String and Go strings *)

V(k, f, s) == [k |-> k, f |-> f, s |-> s]

\* quad.IRI in one of three forms: "s" short (prefix:name), "f" full, "n" no known namespace
IRI(f, s) == V("iri", f, s)
BNode(src, s) == V("bnode", src, s)
QString(s) == V("str", "", s)
GoString(s) == V("gostr", "", s)
NilValue == V("nil", "", "")

\* quad.IRI.Short: compact a known namespace
ShortIRI(v) == IF v.k = "iri" /\ v.f = "f" THEN IRI("s", v.s) ELSE v

\* quad.IRI.Full: expand a known prefix
FullIRI(v) == IF v.k = "iri" /\ v.f = "s" THEN IRI("f", v.s) ELSE v

IRINative == 0
IRIShort == 1
IRIFull == 2

iriType == IRI("f", "type")

\* Config.iri
iri(cfg, v) ==
    IF cfg.IRIs = IRIShort THEN ShortIRI(v)
    ELSE IF cfg.IRIs = IRIFull THEN FullIRI(v)
    ELSE v

\* quad.IRI(s) for the strings that occur in annotations: "ex:..." is a short form
ShortNames == {"ex:isParentOf", "ex:Rev"}
quadIRI(s) ==
    IF s = "ex:isParentOf" THEN IRI("s", "isParentOf")
    ELSE IF s = "ex:Rev" THEN IRI("s", "Rev")
    ELSE IRI("n", s)

\* Config.toIRI
toIRI(cfg, s) == iri(cfg, IF s = "@type" THEN iriType ELSE quadIRI(s))

-----------------------------------------------------------------------------
(* The record types of the model (Go struct declarations with their tags) *)

\* one struct field: Kind is "scalar" or "slice"; Elem is "iri", "string",
\* "emptystruct" or the name of a struct type; the quad tag is held split:
\* segs are the trimmed parts of its first element around sep, sub the modifiers
Fld(name, anon, kind, elem, segs, sep, sub, json) ==
    [Name |-> name, Anonymous |-> anon, Kind |-> kind, Elem |-> elem,
     segs |-> segs, sep |-> sep, sub |-> sub, json |-> json]

Types == {"Base", "Item", "Person", "Tagged", "Owner", "Rev", "Note", "Named", "Mid", "Two",
          "Node"}

Fields(t) ==
    CASE t = "Base" ->
           << Fld("ID", FALSE, "scalar", "iri", <<"@id">>, "", <<>>, "") >>
      [] t = "Item" ->
           << Fld("ID", FALSE, "scalar", "iri", <<"@id">>, "", <<>>, ""),
              Fld("Label", FALSE, "scalar", "string", <<"label">>, "", <<>>, "") >>
      [] t = "Person" ->
           << Fld("ID", FALSE, "scalar", "iri", <<>>, "", <<>>, "@id"),
              Fld("Name", FALSE, "scalar", "string", <<>>, "", <<>>, "name"),
              Fld("Follows", FALSE, "slice", "iri", <<"follows">>, "", <<>>, "") >>
      [] t = "Tagged" ->
           << Fld("Base", TRUE, "scalar", "Base", <<>>, "", <<>>, ""),
              Fld("Nick", FALSE, "scalar", "string", <<"nick">>, "", <<"optional">>, ""),
              Fld("Tags", FALSE, "slice", "string", <<"tag">>, "", <<"required">>, "") >>
      [] t = "Owner" ->
           << Fld("ID", FALSE, "scalar", "iri", <<"@id">>, "", <<>>, ""),
              Fld("Main", FALSE, "scalar", "Item", <<"main">>, "", <<>>, ""),
              Fld("Items", FALSE, "slice", "Item", <<"item">>, "", <<>>, "") >>
      [] t = "Rev" ->
           << Fld("_", FALSE, "scalar", "emptystruct", <<"@type", "ex:Rev">>, ">", <<>>, ""),
              Fld("ID", FALSE, "scalar", "iri", <<"@id">>, "", <<>>, ""),
              Fld("Parents", FALSE, "slice", "iri", <<"ex:isParentOf", "*">>, "<", <<>>, "") >>
      [] t = "Note" ->
           << Fld("Text", FALSE, "scalar", "string", <<"text">>, "", <<>>, "") >>
      [] t = "Named" ->
           << Fld("Name", FALSE, "scalar", "string", <<"name">>, "", <<>>, "") >>
      [] t = "Mid" ->
           << Fld("Named", TRUE, "scalar", "Named", <<>>, "", <<>>, "") >>
      [] t = "Two" ->
           << Fld("ID", FALSE, "scalar", "iri", <<"@id">>, "", <<>>, ""),
              Fld("Named", TRUE, "scalar", "Named", <<>>, "", <<>>, ""),
              Fld("Mid", TRUE, "scalar", "Mid", <<>>, "", <<>>, "") >>
      [] t = "Node" ->
           << Fld("Base", TRUE, "scalar", "Base", <<>>, "", <<>>, ""),
              Fld("Next", FALSE, "slice", "Node", <<"next">>, "", <<>>, "") >>

NumField(t) == Len(Fields(t))

IsStruct(elem) == elem \in Types

-----------------------------------------------------------------------------
(* Errors *)

Err(k, a, cause) == [k |-> k, a |-> a, cause |-> cause]
NoErr == Err("nil", "", "")
ErrReqFieldNotSet(field) == Err("ErrReqFieldNotSet", field, "")
errNotFound == Err("errNotFound", "", "")
errRequiredFieldIsMissing == Err("errRequiredFieldIsMissing", "", "")
ErrMsg(k, a) == Err(k, a, "")

\* the one element of a singleton set; Once({F(x) : x \in {e}}) is F(e) with e
\* evaluated a single time, as a Go local assigned once and then read
Once(S) == CHOOSE x \in S : TRUE

\* map access with Go's zero value for a missing key
Get(m, k, zero) == IF k \in DOMAIN m THEN m[k] ELSE zero
Put(m, k, v) == [x \in DOMAIN m \cup {k} |-> IF x = k THEN v ELSE m[x]]
EmptyMap == [x \in {} |-> NilValue]

-----------------------------------------------------------------------------
(* Field rules *)

Rule(k, pred, val, rev, opt) == [k |-> k, Pred |-> pred, Val |-> val, Rev |-> rev, Opt |-> opt]
NilRule == Rule("nil", NilValue, NilValue, FALSE, FALSE)
idRule == Rule("id", NilValue, NilValue, FALSE, FALSE)
saveRule(pred, rev, opt) == Rule("save", pred, NilValue, rev, opt)
constraintRule(pred, val, rev) == Rule("constraint", pred, val, rev, FALSE)

HasMod(sub, a, b) == \E i \in 1..Len(sub) : sub[i] = a \/ sub[i] = b

\* mutation of fieldOpt: an optional modifier wins over a required one
fieldOptOptWins(fld) ==
    LET opt == HasMod(fld.sub, "opt", "optional")
        req == HasMod(fld.sub, "req", "required")
    IN  IF opt THEN TRUE
        ELSE IF req THEN FALSE
        ELSE fld.Kind = "slice"

\* the opt flag of fieldRule, lines 227-241
fieldOpt(fld) ==
    LET opt == HasMod(fld.sub, "opt", "optional")
        req == HasMod(fld.sub, "req", "required")
    IN  IF req THEN FALSE
        ELSE IF fld.Kind = "slice" THEN TRUE
        ELSE opt

\* Config.fieldRule: [rule, err]
fieldRule(cfg, fld) ==
    LET jsn  == fld.segs = <<>> \/ fld.segs = <<"">>
        tri  == IF jsn THEN (IF fld.json = "" THEN <<>> ELSE <<fld.json>>) ELSE fld.segs
        rev  == fld.sep = "<"
        ps   == tri[1]
        vs   == IF rev THEN tri[2] ELSE IF Len(tri) > 1 THEN tri[2] ELSE "*"
        p    == toIRI(cfg, ps)
    IN  IF tri = <<>> \/ tri = <<"-">> THEN [rule |-> NilRule, err |-> NoErr]
        ELSE IF tri = <<"@id">> THEN [rule |-> idRule, err |-> NoErr]
        ELSE IF ~jsn /\ rev /\ Len(tri) # 2
             THEN [rule |-> NilRule, err |-> ErrMsg("wrong quad tag format", fld.Name)]
        ELSE IF ~jsn /\ ~rev /\ Len(tri) > 2
             THEN [rule |-> NilRule, err |-> ErrMsg("wrong quad tag format", fld.Name)]
        ELSE IF ps = ""
             THEN [rule |-> NilRule, err |-> ErrMsg("no predicate", fld.Name)]
        ELSE IF vs = "" \/ (vs = "*" /\ fld.Elem # "emptystruct")
             THEN [rule |-> saveRule(p, rev, fieldOpt(fld)), err |-> NoErr]
        ELSE [rule |-> constraintRule(p, toIRI(cfg, vs), rev), err |-> NoErr]

\* anonFieldType: the second result
anonFieldType(fld) == fld.Kind = "scalar" /\ IsStruct(fld.Elem)

RECURSIVE rulesForStructFrom(_, _, _, _, _)

\* the rest of the loop once the fields of an anonymous field are in
rulesAfterAnon(cfg, pref, rt, i, sub) ==
    IF sub.err # NoErr THEN sub ELSE rulesForStructFrom(cfg, sub.out, pref, rt, i + 1)

\* the rest of the loop once the rule of field f is known
rulesAfterField(cfg, out, pref, rt, i, f, fr) ==
    IF fr.err # NoErr THEN [out |-> out, err |-> fr.err]
    ELSE rulesForStructFrom(cfg,
           IF fr.rule # NilRule THEN Put(out, pref \o f.Name, fr.rule) ELSE out,
           pref, rt, i + 1)

\* the loop of Config.rulesForStructTo from the i-th field on: [out, err]
rulesForStructFrom(cfg, out, pref, rt, i) ==
    IF i > NumField(rt) THEN [out |-> out, err |-> NoErr]
    ELSE IF Fields(rt)[i].Anonymous
    THEN IF ~anonFieldType(Fields(rt)[i])
         THEN [out |-> out, err |-> ErrMsg("anonymous fields not supported", Fields(rt)[i].Name)]
         ELSE Once({rulesAfterAnon(cfg, pref, rt, i, sub) :
                      sub \in {rulesForStructFrom(cfg, out, pref \o Fields(rt)[i].Name \o ".",
                                                  Fields(rt)[i].Elem, 1)}})
    ELSE Once({rulesAfterField(cfg, out, pref, rt, i, Fields(rt)[i], fr) :
                 fr \in {fieldRule(cfg, Fields(rt)[i])}})

\* Config.rulesForStructTo: [out, err]; out maps dotted field paths to rules
rulesForStructTo(cfg, out, pref, rt) == rulesForStructFrom(cfg, out, pref, rt, 1)

EmptyRules == [x \in {} |-> NilRule]

\* the insertion into the cache, lines 524-530
rulesForStore(cache, rt, r) ==
    IF r.err # NoErr
    THEN [rules |-> EmptyRules, err |-> r.err, cache |-> cache]
    ELSE [rules |-> r.out, err |-> NoErr, cache |-> Put(cache, rt, r.out)]

\* Config.rulesFor: [rules, err, cache]; cache is rulesForType after the call
rulesFor(cfg, cache, rt) ==
    IF rt \in DOMAIN cache
    THEN [rules |-> cache[rt], err |-> NoErr, cache |-> cache]
    ELSE Once({rulesForStore(cache, rt, r) : r \in {rulesForStructTo(cfg, EmptyRules, "", rt)}})

-----------------------------------------------------------------------------
(* Go values of the record types *)

Struct(t, f) == [T |-> t, F |-> f]
EmptyStructValue == V("empty", "", "")

FieldNames(t) == {Fields(t)[i].Name : i \in 1..NumField(t)}

RECURSIVE ZeroStruct(_)
\* reflect.Zero of an element type
ZeroOf(elem) ==
    IF elem = "iri" THEN IRI("n", "")
    ELSE IF elem = "string" THEN GoString("")
    ELSE IF elem = "emptystruct" THEN EmptyStructValue
    ELSE ZeroStruct(elem)

ZeroStruct(t) ==
    Struct(t, [n \in FieldNames(t) |->
        LET f == CHOOSE g \in {Fields(t)[i] : i \in 1..NumField(t)} : g.Name = n
        IN  IF f.Kind = "slice" THEN <<>> ELSE ZeroOf(f.Elem)])

\* mutation of isZero: nothing counts as zero
isZeroNever(rv, tp) == FALSE

\* isZero
isZero(rv, tp) == rv = ZeroOf(tp)

\* quad.AsValue: [v, ok]
AsValue(rv, tp) ==
    IF tp = "iri" THEN [v |-> rv, ok |-> TRUE]
    ELSE IF tp = "string" THEN [v |-> QString(rv.s), ok |-> TRUE]
    ELSE [v |-> NilValue, ok |-> FALSE]

Quad(s, p, o, l) == [Subject |-> s, Predicate |-> p, Object |-> o, Label |-> l]

-----------------------------------------------------------------------------
(* WriteAsQuads *)

\* what a write threads along: the quads handed to the writer, the ID
\* generator calls made, and the rules cache
WS(quads, gens, rft) == [quads |-> quads, gens |-> gens, rft |-> rft]

\* the environment of a call: the Config, the package hook, the type registry
Env(cfg, pkg, reg) == [c |-> cfg, pkg |-> pkg, reg |-> reg]

\* mutation of genID: the package-level hook is preferred to the Config's
genIDPkgFirst(e, n) ==
    LET gen == IF e.pkg # "nil" THEN e.pkg
               ELSE IF e.c.GenerateID # "nil" THEN e.c.GenerateID
               ELSE "rand"
    IN  BNode(gen, ToString(n))

\* Config.genID: the n-th generated identifier
genID(e, n) ==
    LET gen == IF e.c.GenerateID # "nil" THEN e.c.GenerateID
               ELSE IF e.pkg # "nil" THEN e.pkg
               ELSE "rand"
    IN  BNode(gen, ToString(n))

\* the conversion of an @id field's value in idFor, lines 1029-1039
idValue(cfg, vid) ==
    IF vid.k = "iri" THEN [id |-> iri(cfg, vid), err |-> NoErr]
    ELSE IF vid.k = "bnode" THEN [id |-> vid, err |-> NoErr]
    ELSE IF vid.k = "gostr" THEN [id |-> toIRI(cfg, vid.s), err |-> NoErr]
    ELSE [id |-> NilValue, err |-> ErrMsg("unsupported type for id field", vid.k)]

RECURSIVE idFor(_, _, _, _, _)
RECURSIVE idForAnon(_, _, _, _, _, _)

\* the second pass of idFor after the look into the i-th field
idForAnonNext(cfg, rules, rt, rv, pref, i, r) ==
    IF r.err # NoErr \/ r.id # NilValue THEN r
    ELSE idForAnon(cfg, rules, rt, rv, pref, i + 1)

\* the second pass of idFor, over the anonymous fields from the i-th on
idForAnon(cfg, rules, rt, rv, pref, i) ==
    IF i > NumField(rt) THEN [id |-> NilValue, err |-> NoErr]
    ELSE IF ~Fields(rt)[i].Anonymous THEN idForAnon(cfg, rules, rt, rv, pref, i + 1)
    ELSE Once({idForAnonNext(cfg, rules, rt, rv, pref, i, r) :
                 r \in {idFor(cfg, rules, Fields(rt)[i].Elem, rv.F[Fields(rt)[i].Name],
                              pref \o Fields(rt)[i].Name \o ".")}})

\* the fields of rt that carry the @id rule
idFields(rules, rt, pref) ==
    {i \in 1..NumField(rt) : Get(rules, pref \o Fields(rt)[i].Name, NilRule) = idRule}

\* Config.idFor: [id, err]
idFor(cfg, rules, rt, rv, pref) ==
    IF idFields(rules, rt, pref) # {}
    THEN idValue(cfg, rv.F[Fields(rt)[CHOOSE j \in idFields(rules, rt, pref) :
                                        \A k \in idFields(rules, rt, pref) : j <= k].Name])
    ELSE IF ~\E i \in 1..NumField(rt) : Fields(rt)[i].Anonymous
    THEN [id |-> NilValue, err |-> NoErr]
    ELSE idForAnon(cfg, rules, rt, rv, pref, 1)

\* quad.Writer.WriteQuad with subject and object swapped for a reverse rule
emitQuad(e, ws, id, pred, targ, rev) ==
    [err |-> NoErr,
     ws |-> [ws EXCEPT !.quads = Append(@, IF rev THEN Quad(targ, pred, id, e.c.Label)
                                                   ELSE Quad(id, pred, targ, e.c.Label))]]

\* the required check of writeValueAs, lines 1002 and 1011
reqFieldNotSet(r, fld, fv) == fld.Kind # "slice" /\ ~r.Opt /\ isZero(fv, fld.Elem)

RECURSIVE WriteAsQuads(_, _, _)
RECURSIVE writeValueAs(_, _, _, _, _, _)
RECURSIVE writeFieldsFrom(_, _, _, _, _, _, _)
RECURSIVE writeSliceFrom(_, _, _, _, _, _, _)

\* writeOneValReflect once the nested record is written, lines 954-968
writeNestedThen(e, id, pred, rev, r) ==
    IF r.err # NoErr THEN [err |-> r.err, ws |-> r.ws]
    ELSE emitQuad(e, r.ws, id, pred, r.id, rev)

\* Config.writeOneValReflect: [err, ws]
writeOneValReflect(e, ws, id, pred, rv, tp, rev) ==
    IF isZero(rv, tp) THEN [err |-> NoErr, ws |-> ws]
    ELSE IF AsValue(rv, tp).ok THEN emitQuad(e, ws, id, pred, AsValue(rv, tp).v, rev)
    ELSE IF IsStruct(tp)
    THEN Once({writeNestedThen(e, id, pred, rev, r) : r \in {WriteAsQuads(e, ws, rv)}})
    ELSE [err |-> ErrMsg("unsupported type", tp), ws |-> ws]

\* the loop over a slice once element j is written
writeSliceNext(e, id, r, sl, tp, j, w) ==
    IF w.err # NoErr THEN w ELSE writeSliceFrom(e, w.ws, id, r, sl, tp, j + 1)

\* the loop over a slice field's elements, lines 1003-1008
writeSliceFrom(e, ws, id, r, sl, tp, j) ==
    IF j > Len(sl) THEN [err |-> NoErr, ws |-> ws]
    ELSE Once({writeSliceNext(e, id, r, sl, tp, j, w) :
                 w \in {writeOneValReflect(e, ws, id, r.Pred, sl[j], tp, r.Rev)}})

\* the loop over the fields once field i is written
writeFieldsNext(e, id, rv, pref, rules, i, w) ==
    IF w.err # NoErr THEN w ELSE writeFieldsFrom(e, w.ws, id, rv, pref, rules, i + 1)

\* one field of writeValueAs, lines 985-1018
writeField(e, ws, id, pref, rules, f, r, fv) ==
    IF f.Anonymous THEN writeValueAs(e, ws, id, fv, pref \o f.Name \o ".", rules)
    ELSE IF r.k = "constraint" THEN emitQuad(e, ws, id, r.Pred, r.Val, r.Rev)
    ELSE IF r.k = "save"
    THEN IF f.Kind = "slice" THEN writeSliceFrom(e, ws, id, r, fv, f.Elem, 1)
         ELSE IF reqFieldNotSet(r, f, fv) THEN [err |-> ErrReqFieldNotSet(f.Name), ws |-> ws]
         ELSE writeOneValReflect(e, ws, id, r.Pred, fv, f.Elem, r.Rev)
    ELSE [err |-> NoErr, ws |-> ws]

\* the loop over the fields in writeValueAs, lines 984-1019
writeFieldsFrom(e, ws, id, rv, pref, rules, i) ==
    IF i > NumField(rv.T) THEN [err |-> NoErr, ws |-> ws]
    ELSE Once({writeFieldsNext(e, id, rv, pref, rules, i, w) :
                 w \in {writeField(e, ws, id, pref, rules, Fields(rv.T)[i],
                                   Get(rules, pref \o Fields(rv.T)[i].Name, NilRule),
                                   rv.F[Fields(rv.T)[i].Name])}})

\* the type quad of a registered type, lines 975-983
writeTypeQuad(e, ws, id, tiri) ==
    IF tiri # IRI("n", "")
    THEN emitQuad(e, ws, id, iri(e.c, iriType), iri(e.c, tiri), FALSE).ws
    ELSE ws

\* Config.writeValueAs: [err, ws]
writeValueAs(e, ws, id, rv, pref, rules) ==
    writeFieldsFrom(e, writeTypeQuad(e, ws, id, Get(e.reg, rv.T, IRI("n", ""))),
                    id, rv, pref, rules, 1)

\* WriteAsQuads once writeValueAs has returned, lines 1090-1093
writeDone(id, w0) ==
    Once({IF w.err # NoErr THEN [id |-> NilValue, err |-> w.err, ws |-> w.ws]
          ELSE [id |-> id, err |-> NoErr, ws |-> w.ws] : w \in {w0}})

\* WriteAsQuads with the identity known, lines 1087-1093
writeWithID(e, ws, o, rules, idr) ==
    IF idr.err # NoErr THEN [id |-> NilValue, err |-> idr.err, ws |-> ws]
    ELSE IF idr.id = NilValue
    THEN Once({writeDone(id, writeValueAs(e, [ws EXCEPT !.gens = Append(@, [id |-> id, o |-> o])],
                                          id, o, "", rules)) :
                 id \in {genID(e, Len(ws.gens))}})
    ELSE writeDone(idr.id, writeValueAs(e, ws, idr.id, o, "", rules))

\* WriteAsQuads with the rules known, lines 1077-1086
writeWithRules(e, ws, o, rf) ==
    IF rf.err # NoErr
    THEN [id |-> NilValue, err |-> Err("can't load rules", rf.err.a, rf.err.k), ws |-> ws]
    ELSE IF DOMAIN rf.rules = {}
    THEN [id |-> NilValue, err |-> ErrMsg("no rules for struct", o.T),
          ws |-> [ws EXCEPT !.rft = rf.cache]]
    ELSE Once({writeWithID(e, [ws EXCEPT !.rft = rf.cache], o, rf.rules, idr) :
                 idr \in {idFor(e.c, rf.rules, o.T, o, "")}})

\* Config.WriteAsQuads: [id, err, ws]
WriteAsQuads(e, ws, o) ==
    Once({writeWithRules(e, ws, o, rf) : rf \in {rulesFor(e.c, ws.rft, o.T)}})

-----------------------------------------------------------------------------
(* Paths built for a type, and what their iterators yield over the store *)

\* one morphism operator: "has", "tag" or "save"
Op(op, pred, vals, tag, rev, opt) ==
    [op |-> op, pred |-> pred, vals |-> vals, tag |-> tag, rev |-> rev, opt |-> opt]
PHas(pred, vals, rev) == Op("has", pred, vals, "", rev, FALSE)
PTag(tag) == Op("tag", NilValue, {}, tag, FALSE, FALSE)
PSave(pred, tag, rev, opt) == Op("save", pred, {}, tag, rev, opt)

\* the path caches of a Config, as makePathForType reads and writes them
Caches(pft, pftr) == [pathForType |-> pft, pathForTypeRoot |-> pftr]
EmptyPaths == [x \in {} |-> <<>>]

\* the operators makePathForType appends for one field rule, lines 406-442
pathOpsForRule(rule, tag, rootOnly) ==
    IF rule.k = "id" THEN <<PTag(tag)>>
    ELSE IF rule.k = "constraint"
         THEN <<PHas(rule.Pred, IF rule.Val # IRI("n", "") THEN {rule.Val} ELSE {}, rule.Rev)>>
    ELSE IF rule.k = "save"
         THEN IF rule.Opt
              THEN IF ~rootOnly THEN <<PSave(rule.Pred, tag, rule.Rev, TRUE)>> ELSE <<>>
              ELSE IF rootOnly THEN <<PHas(rule.Pred, {}, rule.Rev)>>
              ELSE <<PSave(rule.Pred, tag, rule.Rev, FALSE)>>
    ELSE <<>>

RECURSIVE makePathForType(_, _, _, _, _)
RECURSIVE makePathFieldsFrom(_, _, _, _, _, _, _)

\* p.Follow(pa) for the path of an anonymous field, lines 385-390
pathAfterAnon(e, rt, tagPref, rootOnly, p, i, pa) ==
    IF pa.err # NoErr THEN [p |-> <<>>, err |-> pa.err, caches |-> pa.caches]
    ELSE makePathFieldsFrom(e, pa.caches, rt, tagPref, rootOnly, p \o pa.p, i + 1)

\* the operators of an own field once its rule is known, lines 393-442
pathAfterField(e, caches, rt, tagPref, rootOnly, p, i, f, fr) ==
    IF fr.err # NoErr THEN [p |-> <<>>, err |-> fr.err, caches |-> caches]
    ELSE makePathFieldsFrom(e, caches, rt, tagPref, rootOnly,
                            p \o pathOpsForRule(fr.rule, tagPref \o f.Name, rootOnly), i + 1)

\* the loop over the fields in makePathForType, lines 382-443: [p, err, caches]
makePathFieldsFrom(e, caches, rt, tagPref, rootOnly, p, i) ==
    IF i > NumField(rt) THEN [p |-> p, err |-> NoErr, caches |-> caches]
    ELSE IF Fields(rt)[i].Anonymous
    THEN Once({pathAfterAnon(e, rt, tagPref, rootOnly, p, i, pa) :
                 pa \in {makePathForType(e, caches, Fields(rt)[i].Elem,
                                         tagPref \o Fields(rt)[i].Name \o ".", rootOnly)}})
    ELSE Once({pathAfterField(e, caches, rt, tagPref, rootOnly, p, i, Fields(rt)[i], fr) :
                 fr \in {fieldRule(e.c, Fields(rt)[i])}})

\* the constraint on rdf:type for a registered type, lines 375-381
pathTypeHas(e, tiri) ==
    IF tiri # IRI("n", "") THEN <<PHas(iri(e.c, iriType), {tiri}, FALSE)>> ELSE <<>>

\* the insertion into the path cache, lines 444-465
pathStore(rt, tagPref, rootOnly, r) ==
    IF r.err # NoErr \/ tagPref = "" THEN r
    ELSE [p |-> r.p, err |-> NoErr,
          caches |-> IF rootOnly
                     THEN [r.caches EXCEPT !.pathForTypeRoot = Put(@, rt, r.p)]
                     ELSE [r.caches EXCEPT !.pathForType = Put(@, rt, r.p)]]

\* the cache makePathForType looks into, lines 364-367
pathCache(caches, rootOnly) ==
    IF rootOnly THEN caches.pathForTypeRoot ELSE caches.pathForType

\* Config.makePathForType: [p, err, caches]
makePathForType(e, caches, rt, tagPref, rootOnly) ==
    IF ~IsStruct(rt)
    THEN [p |-> <<>>, err |-> ErrMsg("expected struct", rt), caches |-> caches]
    ELSE IF tagPref # "" /\ rt \in DOMAIN pathCache(caches, rootOnly)
    THEN [p |-> pathCache(caches, rootOnly)[rt], err |-> NoErr, caches |-> caches]
    ELSE Once({pathStore(rt, tagPref, rootOnly, r) :
                 r \in {makePathFieldsFrom(e, caches, rt, tagPref, rootOnly,
                                           pathTypeHas(e, Get(e.reg, rt, IRI("n", ""))), 1)}})

\* QuadStore.NodesAllIterator: every value that occurs in a quad
NodesAll(S) == {q.Subject : q \in S} \cup {q.Predicate : q \in S} \cup {q.Object : q \in S}

\* QuadStore.ValueOf: the node of a value, nil when the store does not hold it
ValueOf(S, v) == IF v \in NodesAll(S) THEN v ELSE NilValue

\* QuadStore.NameOf
NameOf(S, ref) == IF ref \in NodesAll(S) THEN ref ELSE NilValue

\* the far ends of the pred edges at node n (reverse: the edges that arrive at n)
Edges(S, n, pred, rev) ==
    IF rev THEN {q.Subject : q \in {x \in S : x.Predicate = pred /\ x.Object = n}}
    ELSE {q.Object : q \in {x \in S : x.Predicate = pred /\ x.Subject = n}}

\* whether the path's iterator yields node n
PathAccepts(S, p, n) ==
    \A i \in 1..Len(p) :
        LET o == p[i] IN
        /\ o.op = "has" =>
             IF o.vals = {} THEN Edges(S, n, o.pred, o.rev) # {}
             ELSE Edges(S, n, o.pred, o.rev) \cap o.vals # {}
        /\ (o.op = "save" /\ ~o.opt) => Edges(S, n, o.pred, o.rev) # {}

EmptyTags == [x \in {} |-> NilValue]

RECURSIVE PathBindings(_, _, _, _)

\* the tag maps of one operator laid over those of the operators after it
bindingsWith(o, n, out, rest) ==
    IF o.op = "tag" THEN {Put(b, o.tag, n) : b \in rest}
    ELSE IF o.op = "save" /\ out # {}
    THEN UNION {{Put(b, o.tag, v) : b \in rest} : v \in out}
    ELSE rest

\* the tag maps of node n: the one Next delivers and those NextPath delivers after it
PathBindings(S, p, n, i) ==
    IF i > Len(p) THEN {EmptyTags}
    ELSE Once({bindingsWith(p[i], n, out, rest) :
                 out \in {Edges(S, n, p[i].pred, p[i].rev)},
                 rest \in {PathBindings(S, p, n, i + 1)}})

\* the nodes the iterator of iteratorFromPath yields: root (when given) And the path
IterNodes(S, listNil, list, p) ==
    {n \in NodesAll(S) : (listNil \/ \E k \in 1..Len(list) : list[k] = n) /\ PathAccepts(S, p, n)}

-----------------------------------------------------------------------------
(* Loading: the destination, the converter, the frames of the call stack *)

contextCanceled == Err("context.Canceled", "", "")
contextDeadlineExceeded == Err("context.DeadlineExceeded", "", "")

\* mutation of ctxDone: the context is never found done
ctxDoneNever(state) == FALSE

\* select { case <-ctx.Done(): ... default: }: whether the check finds the context done
ctxDone(state) == state # "live"

\* ctx.Err() of a context that is done
ctxErr(state) == IF state = "deadline" THEN contextDeadlineExceeded ELSE contextCanceled

\* the error a chain of wrappings started from
RootCause(err) == IF err.cause = "" THEN err.k ELSE err.cause

\* fmt.Errorf("load anonymous field %s failed: %v", f.Name, err), line 637
WrapAnon(name, err) == Err("load anonymous field failed", name, RootCause(err))

\* mutation of IsNotFound: only errNotFound counts
IsNotFoundOnlyNotFound(err) == err = errNotFound

\* IsNotFound
IsNotFound(err) == err = errNotFound \/ err = errRequiredFieldIsMissing

\* the text of an IRI, as a Go string conversion yields it
IRIText(v) ==
    IF v.f = "s" THEN "ex:" \o v.s
    ELSE IF v.f = "f" THEN "http://example.org/" \o v.s
    ELSE v.s

\* reflect's Convert between the string kinds, to a field's element type
convertTo(elem, sv) ==
    IF elem = "iri"
    THEN IF sv.k = "iri" THEN [v |-> sv, ok |-> TRUE]
         ELSE [v |-> quadIRI(sv.s), ok |-> TRUE]
    ELSE IF elem = "string"
    THEN IF sv.k = "iri" THEN [v |-> GoString(IRIText(sv)), ok |-> TRUE]
         ELSE [v |-> GoString(sv.s), ok |-> TRUE]
    ELSE [v |-> sv, ok |-> FALSE]

\* DefaultConverter.SetValue on field fld holding cur: [val, err]
SetValue(fld, cur, sv, isStruct) ==
    LET cv == IF isStruct THEN [v |-> sv, ok |-> TRUE] ELSE convertTo(fld.Elem, sv)
    IN  IF ~cv.ok THEN [val |-> cur, err |-> ErrMsg("ErrTypeConversionFailed", fld.Name)]
        ELSE IF fld.Kind = "slice" THEN [val |-> Append(cur, cv.v), err |-> NoErr]
        ELSE [val |-> cv.v, err |-> NoErr]

\* keysEqual
keysEqual(v1, v2) == v1 = v2

EmptyMo == [x \in {} |-> <<>>]

\* the merge of one NextPath tag map into mo, lines 883-902
mergeTags(mo, mp) ==
    [k \in DOMAIN mo \cup DOMAIN mp |->
        IF k \notin DOMAIN mp THEN mo[k]
        ELSE IF k \notin DOMAIN mo THEN <<mp[k]>>
        ELSE IF \E x \in 1..Len(mo[k]) : keysEqual(mo[k][x], mp[k]) THEN mo[k]
        ELSE Append(mo[k], mp[k])]

\* the required-field check of loadToValue, lines 614-622
requiredMissing(fields, m, depth) ==
    /\ depth # 0
    /\ \E name \in DOMAIN fields :
        fields[name].k = "save" /\ ~fields[name].Opt /\ Len(Get(m, name, <<>>)) = 0

\* mutation of userDepth: the depth is passed on as given
userDepthAsGiven(depth) == depth

\* LoadIteratorToDepth, lines 811-814: the depth loadIteratorToDepth runs with
userDepth(depth) == IF depth >= 0 THEN depth + 1 ELSE depth

\* mutation of nestedDepth: the nested load gets the counter of its caller
nestedDepthSame(depth) == depth

\* loadToValue, line 662: the depth handed to the load of a nested record
nestedDepth(depth) == depth - 1

\* isNative of a field's element type
isNative(elem) == elem \in {"iri", "string"}

Frame(fn, pc, et, depth, listNil, list, kind, mo, fields, pref, rec) ==
    [fn |-> fn, pc |-> pc, et |-> et, depth |-> depth, listNil |-> listNil, list |-> list,
     kind |-> kind, rem |-> {}, paths |-> {}, p |-> <<>>, mo |-> mo, fields |-> fields,
     pref |-> pref, rec |-> rec, i |-> 1, j |-> 1]

\* a call of loadIteratorToDepth
LIFrame(et, depth, listNil, list, kind) ==
    Frame("LI", "enter", et, depth, listNil, list, kind, EmptyMo, EmptyRules, "",
          IF IsStruct(et) THEN ZeroStruct(et) ELSE ZeroStruct("Base"))

\* a call of loadToValue
LVFrame(rt, depth, m, fields, pref, rec) ==
    Frame("LV", "enter", rt, depth, TRUE, <<>>, "single", m, fields, pref, rec)

Top == stack[Len(stack)]
SetTop(f) == [stack EXCEPT ![Len(stack)] = f]
Running(fn, pc) == stack # <<>> /\ Top.fn = fn /\ Top.pc = pc
CurEnv == Env(c, pkgGenerateID, typeToIRI)

\* mutation of Return: a channel destination is left open
ReturnNoClose(err, val, d) ==
    /\ stack' = SubSeq(stack, 1, Len(stack) - 1)
    /\ ret' = [err |-> err, val |-> val]
    /\ dst' = d
    /\ IF Len(stack) = 1
       THEN /\ outcome' = [done |-> TRUE, err |-> err]
            /\ call' = [call EXCEPT !.active = FALSE]
       ELSE UNCHANGED <<outcome, call>>

\* a frame returns err to its caller; d is the destination as the frame leaves it
Return(err, val, d) ==
    /\ stack' = SubSeq(stack, 1, Len(stack) - 1)
    /\ ret' = [err |-> err, val |-> val]
    /\ IF Len(stack) = 1
       THEN /\ outcome' = [done |-> TRUE, err |-> err]
            /\ call' = [call EXCEPT !.active = FALSE]
            /\ dst' = IF Top.kind = "chan" THEN [d EXCEPT !.closed = TRUE] ELSE d
       ELSE /\ UNCHANGED <<outcome, call>>
            /\ dst' = d

\* iterator and store calls made once the context is done
Calls(h, n) == IF ctxState # "live" THEN [h EXCEPT !.calls = @ + n] ELSE h
Names(h, n) == IF ctxState # "live" THEN [h EXCEPT !.names = @ + n] ELSE h
\* n iterators are created: iterator.NewFixed, p.BuildIteratorOn, iterator.NewAnd
Opened(h, n) == [h EXCEPT !.open = @ + n]
\* the deferred it.Close() of frame f runs: it closes the iterator of the type's
\* path and, through the And that holds it, the list the frame was given
Closed(h, f) == [h EXCEPT !.open = @ - (IF f.listNil THEN 1 ELSE 2)]
\* makePathForType(et, "", rootOnly) has run and left the path caches as after:
\* it built the path of et, and the path of every embedded type it put into a cache
Built(h, et, rootOnly, after) ==
    LET new == {<<et, rootOnly>>}
               \cup {<<t, FALSE>> : t \in DOMAIN after.pathForType \ DOMAIN c.pathForType}
               \cup {<<t, TRUE>> : t \in DOMAIN after.pathForTypeRoot \ DOMAIN c.pathForTypeRoot}
    IN  [h EXCEPT !.builds = [k \in DOMAIN @ \cup new |->
                                 Get(@, k, 0) + (IF k \in new THEN 1 ELSE 0)]]
\* a context check finds the context done and the frame returns err
Observed(h, at, err) ==
    [h EXCEPT !.observed = TRUE, !.obsAt = at, !.obsErr = err, !.obsCtx = ctxState,
              !.obsAnon = Top.pref # "", !.seqAtObs = dst.seq]

-----------------------------------------------------------------------------
(* Inputs *)

alice == IRI("n", "alice")
bob   == IRI("s", "bob")
carol == IRI("n", "carol")
i1    == IRI("n", "i1")
i2    == IRI("n", "i2")
o1    == IRI("n", "o1")

ItemRecords ==
    {Struct("Item", [ID |-> i, Label |-> l]) : i \in {i1, i2}, l \in {GoString(""), GoString("L")}}

\* the records handed to WriteAsQuads
Records ==
    {Struct("Base", [ID |-> i]) : i \in {alice, bob}}
    \cup ItemRecords
    \cup {Struct("Item", [ID |-> IRI("n", ""), Label |-> GoString("L")])}
    \cup {Struct("Person", [ID |-> i, Name |-> n, Follows |-> f]) :
            i \in {alice, bob}, n \in {GoString(""), GoString("Alice")},
            f \in {<<>>, <<bob>>, <<bob, carol>>, <<carol, IRI("n", "")>>}}
    \cup {Struct("Tagged", [Base |-> Struct("Base", [ID |-> alice]), Nick |-> n, Tags |-> t]) :
            n \in {GoString(""), GoString("Al")},
            t \in {<<>>, <<GoString("t1")>>, <<GoString("t1"), GoString("t2")>>}}
    \cup {Struct("Owner", [ID |-> o1, Main |-> m, Items |-> it]) :
            m \in {Struct("Item", [ID |-> i1, Label |-> l]) : l \in {GoString(""), GoString("L")}}
                  \cup {ZeroStruct("Item")},
            it \in {<<>>, <<Struct("Item", [ID |-> i2, Label |-> GoString("M")])>>}}
    \cup {Struct("Rev", ("_" :> EmptyStructValue) @@ [ID |-> alice, Parents |-> ps]) :
            ps \in {<<>>, <<carol>>}}
    \cup {Struct("Note", [Text |-> t]) : t \in {GoString(""), GoString("hello")}}
    \cup {Struct("Two", [ID |-> alice,
                         Named |-> Struct("Named", [Name |-> a]),
                         Mid |-> Struct("Mid", [Named |-> Struct("Named", [Name |-> b])])]) :
            a \in {GoString(""), GoString("N")}, b \in {GoString(""), GoString("N")}}

Pd(name) == IRI("n", name)

\* the quads an external writer may add
RawQuads ==
    { Quad(o1, Pd("main"), i1, NilValue),
      Quad(i1, Pd("label"), QString("L"), NilValue),
      Quad(o1, Pd("item"), i2, NilValue),
      Quad(i2, Pd("label"), QString("M"), NilValue),
      Quad(alice, Pd("name"), QString("Alice"), NilValue),
      Quad(alice, Pd("follows"), bob, NilValue),
      Quad(alice, Pd("follows"), carol, NilValue),
      Quad(alice, Pd("tag"), QString("x"), NilValue) }

\* the types, destinations, depths and ids LoadToDepth is called with
LoadTypes == {"Owner", "Item", "Person", "Tagged", "Two"}
LoadKinds == {"single", "slice", "chan"}
LoadDepths == {-1, 0, 1}
LoadIds == {<<>>, <<o1>>, <<alice>>, <<i2>>}

\* the IRIs and types RegisterType is called with
RegIRIs == {IRI("s", "Person"), IRI("f", "Person")}
RegTypes == {"Person", "Base"}

-----------------------------------------------------------------------------
(* Initial state *)

Configs ==
    [IRIs : {IRINative, IRIShort, IRIFull}, GenerateID : {"nil", "cfg"}, Label : {NilValue},
     rulesForType : {EmptyRules}, pathForType : {EmptyPaths}, pathForTypeRoot : {EmptyPaths}]

NoCall == [active |-> FALSE, started |-> FALSE, et |-> "Base", kind |-> "single", depth |-> 0, ids |-> <<>>]
NoHist == [calls |-> 0, names |-> 0, observed |-> FALSE, obsAt |-> "", obsErr |-> NoErr,
           obsCtx |-> "live", obsAnon |-> FALSE, seqAtObs |-> <<>>, levels |-> 0,
           nested |-> 0, nestedRootOnly |-> 0, skipped |-> 0, raw |-> 0, regs |-> 0,
           panicked |-> FALSE, regLog |-> {}, pending |-> 0, open |-> 0,
           builds |-> [x \in {} |-> 0]]

\* the goroutines that share the Config
Go == 1..NumGo

\* a sync.RWMutex nobody holds
FreeMutex == [r |-> {}, w |-> 0]

\* a goroutine that is in no call
IdleGo == [pc |-> "idle", fn |-> "", rt |-> "Base", rootOnly |-> FALSE, i |-> 1, ok |-> FALSE,
           res |-> <<>>, err |-> NoErr, n |-> 0, got |-> <<>>]

\* quad.Int(n)
QInt(n) == V("int", "", <<"0", "1", "2", "3", "4", "5">>[n + 1])

\* iterator.NewFixed(vs...): the values in the order given, i of them emitted
NewFixed(vs) == [vals |-> vs, i |-> 0]

\* no iterator built yet; ok, ans and m are what the last Next, Contains and
\* TagResults returned; nexts, probed, resets, fresh, late record the calls made
NoIter ==
    [pc |-> "none", a |-> NewFixed(<<>>), b |-> NewFixed(<<>>), isAnd |-> FALSE,
     done |-> FALSE, result |-> NilValue, tags |-> {},
     ok |-> FALSE, asked |-> NilValue, ans |-> FALSE, m |-> [t \in {} |-> NilValue],
     nexts |-> 0, probed |-> FALSE, resets |-> 0, fresh |-> TRUE, drained |-> FALSE,
     late |-> {}, first |-> NilValue]

\* fieldRule not called yet
NoProbe == [called |-> FALSE, fld |-> Fld("", FALSE, "scalar", "string", <<>>, "", <<>>, ""),
            rule |-> NilRule, err |-> NoErr]

\* a Handle whose Close has not been called: log lists the Close calls it
\* has made on its parts, err is what QuadWriter.Close returned
OpenHandle == [pc |-> "open", log |-> <<>>, err |-> NoErr, ret |-> NoErr]

AuxInit ==
    /\ locks = [rulesForTypeMu |-> FreeMutex, pathForTypeMu |-> FreeMutex]
    /\ gos = [p \in Go |-> IdleGo]
    /\ handle = OpenHandle
    /\ iter = NoIter
    /\ probe = NoProbe

InitCommon ==
    /\ AuxInit
    /\ typeToIRI = [x \in {} |-> NilValue]
    /\ iriToType = [x \in {} |-> ""]
    /\ store = {}
    /\ wrote = <<>>
    /\ ctxState = "live"
    /\ call = NoCall
    /\ stack = <<>>
    /\ ret = [err |-> NoErr, val |-> ZeroStruct("Base")]
    /\ dst = [single |-> ZeroStruct("Base"), seq |-> <<>>, closed |-> FALSE]
    /\ outcome = [done |-> FALSE, err |-> NoErr]
    /\ hist = NoHist

Init ==
    /\ c \in Configs
    /\ pkgGenerateID \in {"nil", "pkg"}
    /\ InitCommon

InitLoad ==
    /\ c \in {cfg \in Configs : cfg.IRIs = IRINative /\ cfg.GenerateID = "nil"}
    /\ pkgGenerateID = "nil"
    /\ InitCommon

\* stores as earlier writers may have left them
FilledStores ==
    { { Quad(o1, Pd("main"), i1, NilValue), Quad(i1, Pd("label"), QString("L"), NilValue),
        Quad(o1, Pd("item"), i2, NilValue) },
      { Quad(o1, Pd("main"), i1, NilValue), Quad(i1, Pd("label"), QString("L"), NilValue),
        Quad(o1, Pd("item"), i2, NilValue), Quad(i2, Pd("label"), QString("M"), NilValue) },
      { Quad(alice, Pd("name"), QString("Alice"), NilValue),
        Quad(alice, Pd("follows"), bob, NilValue),
        Quad(alice, Pd("follows"), carol, NilValue),
        Quad(alice, Pd("tag"), QString("x"), NilValue) } }

InitCancel ==
    /\ AuxInit
    /\ c \in {cfg \in Configs : cfg.IRIs = IRINative /\ cfg.GenerateID = "nil"}
    /\ pkgGenerateID = "nil"
    /\ typeToIRI = [x \in {} |-> NilValue]
    /\ iriToType = [x \in {} |-> ""]
    /\ store \in FilledStores
    /\ wrote = <<>>
    /\ ctxState = "live"
    /\ call = NoCall
    /\ stack = <<>>
    /\ ret = [err |-> NoErr, val |-> ZeroStruct("Base")]
    /\ dst = [single |-> ZeroStruct("Base"), seq |-> <<>>, closed |-> FALSE]
    /\ outcome = [done |-> FALSE, err |-> NoErr]
    /\ hist = NoHist

-----------------------------------------------------------------------------
(* Actions *)

Remove(m, k) == [x \in DOMAIN m \ {k} |-> m[x]]

\* mutation of RegisterTypeOn: the type is entered before the IRI is checked
RegisterTypeOnEarlyWrite(t2i, i2t, iriv, obj) ==
    LET full == FullIRI(iriv) IN
    IF obj = "nil"
    THEN [typeToIRI |-> Remove(t2i, Get(i2t, full, "")), iriToType |-> Remove(i2t, full),
          panicked |-> FALSE]
    ELSE IF obj \in DOMAIN t2i
    THEN [typeToIRI |-> t2i, iriToType |-> i2t, panicked |-> TRUE]
    ELSE IF full \in DOMAIN i2t
    THEN [typeToIRI |-> Put(t2i, obj, iriv), iriToType |-> i2t, panicked |-> TRUE]
    ELSE [typeToIRI |-> Put(t2i, obj, iriv), iriToType |-> Put(i2t, full, obj),
          panicked |-> FALSE]

\* mutation of RegisterTypeOn: un-registering leaves the type's entry in place
RegisterTypeOnKeepType(t2i, i2t, iriv, obj) ==
    LET full == FullIRI(iriv) IN
    IF obj = "nil"
    THEN [typeToIRI |-> t2i, iriToType |-> Remove(i2t, full), panicked |-> FALSE]
    ELSE IF obj \in DOMAIN t2i \/ full \in DOMAIN i2t
    THEN [typeToIRI |-> t2i, iriToType |-> i2t, panicked |-> TRUE]
    ELSE [typeToIRI |-> Put(t2i, obj, iriv), iriToType |-> Put(i2t, full, obj),
          panicked |-> FALSE]

\* RegisterType(iri, obj) on the registry maps t2i and i2t; obj is a type, or
\* "nil" to unregister: the maps after the call, and whether it panicked
RegisterTypeOn(t2i, i2t, iriv, obj) ==
    LET full == FullIRI(iriv) IN
    IF obj = "nil"
    THEN [typeToIRI |-> Remove(t2i, Get(i2t, full, "")), iriToType |-> Remove(i2t, full),
          panicked |-> FALSE]
    ELSE IF obj \in DOMAIN t2i \/ full \in DOMAIN i2t
    THEN [typeToIRI |-> t2i, iriToType |-> i2t, panicked |-> TRUE]
    ELSE [typeToIRI |-> Put(t2i, obj, iriv), iriToType |-> Put(i2t, full, obj),
          panicked |-> FALSE]

\* RegisterType(iri, obj) before any write or load
RegisterType(iriv, obj) ==
    /\ ~call.started /\ wrote = <<>> /\ store = {}
    /\ hist.regs < MaxRegs
    /\ \E r \in {RegisterTypeOn(typeToIRI, iriToType, iriv, obj)} :
       /\ typeToIRI' = r.typeToIRI
       /\ iriToType' = r.iriToType
       /\ hist' = [hist EXCEPT !.regs = @ + 1, !.panicked = @ \/ r.panicked]
    /\ UNCHANGED <<aux, c, pkgGenerateID, store, wrote, ctxState, call, stack, ret, dst, outcome>>

\* the IRIs and types a program registers and unregisters over its run
RegAllIRIs == {IRI("s", "Person"), IRI("f", "Person"), IRI("n", "thing")}
RegAllTypes == {"Person", "Base", "Item"}

\* what a RegisterType call did, given the registry before it and its result
RegKind(i2t, iriv, obj, r) ==
    IF r.panicked THEN "rejected"
    ELSE IF obj # "nil" THEN "registered"
    ELSE IF FullIRI(iriv) \in DOMAIN i2t THEN "unregistered"
    ELSE "unregistered nothing"

\* RegisterType(iri, obj) in a program that only registers; the caller recovers
\* from a panic and goes on
RegisterTypeAgain(iriv, obj) ==
    /\ hist.regs < MaxRegCalls
    /\ \E r \in {RegisterTypeOn(typeToIRI, iriToType, iriv, obj)} :
       /\ typeToIRI' = r.typeToIRI
       /\ iriToType' = r.iriToType
       /\ hist' = [hist EXCEPT !.regs = @ + 1, !.panicked = r.panicked,
                               !.regLog = @ \cup {RegKind(iriToType, iriv, obj, r)}]
    /\ UNCHANGED <<aux, c, pkgGenerateID, store, wrote, ctxState, call, stack, ret, dst, outcome>>

\* Config.WriteAsQuads(w, o) with a writer that adds each quad to the store
Write(o) ==
    /\ ~call.started
    /\ Len(wrote) < MaxWrites
    /\ \E r \in {WriteAsQuads(CurEnv, WS(<<>>, <<>>, c.rulesForType), o)} :
       /\ store' = store \cup {r.ws.quads[k] : k \in 1..Len(r.ws.quads)}
       /\ c' = [c EXCEPT !.rulesForType = r.ws.rft]
       /\ wrote' = Append(wrote, [o |-> o, id |-> r.id, err |-> r.err,
                                  quads |-> r.ws.quads, gens |-> r.ws.gens,
                                  before |-> store])
    /\ UNCHANGED <<aux, pkgGenerateID, typeToIRI, iriToType, ctxState, call, stack, ret, dst,
                   outcome, hist>>

\* a quad added by another writer of the store
AddQuad(q) ==
    /\ ~call.started
    /\ hist.raw < MaxRaw
    /\ q \notin store
    /\ store' = store \cup {q}
    /\ hist' = [hist EXCEPT !.raw = @ + 1]
    /\ UNCHANGED <<aux, c, pkgGenerateID, typeToIRI, iriToType, wrote, ctxState, call, stack,
                   ret, dst, outcome>>

\* Config.LoadToDepth and LoadIteratorToDepth, up to the call of loadIteratorToDepth
StartLoad(et, kind, depth, ids) ==
    /\ ~call.started
    /\ call' = [active |-> TRUE, started |-> TRUE, et |-> et, kind |-> kind,
                depth |-> depth, ids |-> ids]
    /\ stack' = << LIFrame(et, userDepth(depth), ids = <<>>,
                           [k \in 1..Len(ids) |-> ValueOf(store, ids[k])], kind) >>
    /\ dst' = [single |-> ZeroStruct(et), seq |-> <<>>, closed |-> FALSE]
    /\ hist' = Opened(hist, IF ids = <<>> THEN 0 ELSE 1)
    /\ UNCHANGED <<aux, c, pkgGenerateID, typeToIRI, iriToType, store, wrote, ctxState, ret,
                   outcome>>

\* Config.LoadTo(ctx, qs, &fresh, id) for the record the one WriteAsQuads call wrote
LoadWritten ==
    /\ Len(wrote) = 1 /\ wrote[1].err = NoErr /\ wrote[1].before = {}
    /\ StartLoad(wrote[1].o.T, "single", -1, <<wrote[1].id>>)

\* the values harvested for the field loadToValue is at, not yet looked up
PendingNames ==
    IF stack # <<>> /\ Top.fn = "LV" /\ Top.pc = "elem" /\ isNative(Fields(Top.et)[Top.i].Elem)
    THEN Len(Top.mo[Top.pref \o Fields(Top.et)[Top.i].Name]) + 1 - Top.j
    ELSE 0

\* what the run is at when the context becomes done
AtDone(h) ==
    [h EXCEPT !.levels = Cardinality({k \in 1..Len(stack) : stack[k].fn = "LI"}),
              !.pending = PendingNames]

\* the context is cancelled
Cancel ==
    /\ ctxState = "live" /\ ~outcome.done
    /\ ctxState' = "canceled"
    /\ hist' = AtDone(hist)
    /\ UNCHANGED <<aux, c, pkgGenerateID, typeToIRI, iriToType, store, wrote, call, stack, ret,
                   dst, outcome>>

\* the deadline of the context expires
Deadline ==
    /\ ctxState = "live" /\ ~outcome.done
    /\ ctxState' = "deadline"
    /\ hist' = AtDone(hist)
    /\ UNCHANGED <<aux, c, pkgGenerateID, typeToIRI, iriToType, store, wrote, call, stack, ret,
                   dst, outcome>>

\* loadIteratorToDepth, lines 835-851, with the rules and the path at hand
LIEnterWith(f, rf, pp) ==
    IF rf.err # NoErr
    THEN /\ Return(rf.err, f.rec, dst)
         /\ UNCHANGED <<c, hist>>
    ELSE IF ctxDone(ctxState)
    THEN /\ Return(ctxErr(ctxState), f.rec, dst)
         /\ c' = [c EXCEPT !.rulesForType = rf.cache]
         /\ hist' = Observed(hist, "enter", ctxErr(ctxState))
    ELSE IF pp.err # NoErr
    THEN /\ Return(pp.err, f.rec, dst)
         /\ c' = [c EXCEPT !.rulesForType = rf.cache,
                           !.pathForType = pp.caches.pathForType,
                           !.pathForTypeRoot = pp.caches.pathForTypeRoot]
         /\ UNCHANGED hist
    ELSE /\ stack' = SetTop([f EXCEPT !.pc = "next", !.fields = rf.rules, !.p = pp.p,
                               !.rem = IterNodes(store, f.listNil, f.list, pp.p)])
         /\ c' = [c EXCEPT !.rulesForType = rf.cache,
                           !.pathForType = pp.caches.pathForType,
                           !.pathForTypeRoot = pp.caches.pathForTypeRoot]
         /\ hist' = Opened(Built(hist, f.et, f.depth = 0, pp.caches), 1)
         /\ UNCHANGED <<ret, dst, outcome, call>>

\* loadIteratorToDepth, lines 818-851: rules, first context check, the iterator
LIEnter ==
    /\ Running("LI", "enter")
    /\ \E rf \in {rulesFor(c, c.rulesForType, Top.et)} :
       \E pp \in {makePathForType(CurEnv, Caches(c.pathForType, c.pathForTypeRoot),
                                   Top.et, "", Top.depth = 0)} :
           LIEnterWith(Top, rf, pp)
    /\ UNCHANGED <<aux, pkgGenerateID, typeToIRI, iriToType, store, wrote, ctxState>>

\* it.Next, the context check after it and the first TagResults, lines 852-870
LINext ==
    /\ Running("LI", "next")
    /\ LET f == Top IN
       IF f.rem = {}
       THEN /\ stack' = SetTop([f EXCEPT !.pc = "after"])
            /\ hist' = Calls(hist, 1)
            /\ UNCHANGED <<ret, dst, outcome, call>>
       ELSE IF ctxDone(ctxState)
       THEN /\ Return(ctxErr(ctxState), f.rec, dst)
            /\ hist' = Closed(Observed(Calls(hist, 1), "next", ctxErr(ctxState)), f)
       ELSE \E n \in f.rem : \E mp \in PathBindings(store, f.p, n, 1) :
            /\ stack' = SetTop(
                 IF DOMAIN mp = {} THEN [f EXCEPT !.rem = @ \ {n}]
                 ELSE [f EXCEPT !.rem = @ \ {n}, !.pc = "nextpath",
                                !.paths = PathBindings(store, f.p, n, 1) \ {mp},
                                !.mo = [k \in DOMAIN mp |-> <<mp[k]>>],
                                !.rec = IF f.kind = "single" THEN f.rec ELSE ZeroStruct(f.et)])
            /\ hist' = Calls(hist, 1)
            /\ UNCHANGED <<ret, dst, outcome, call>>
    /\ UNCHANGED <<aux, c, pkgGenerateID, typeToIRI, iriToType, store, wrote, ctxState>>

\* it.NextPath, the context check after it and the merge, lines 871-903; when
\* NextPath fails, the call of loadToValue, line 904
LINextPath ==
    /\ Running("LI", "nextpath")
    /\ LET f == Top IN
       IF f.paths = {}
       THEN /\ stack' = Append(SetTop([f EXCEPT !.pc = "loading"]),
                               LVFrame(f.et, f.depth, f.mo, f.fields, "", f.rec))
            /\ hist' = Calls(hist, 1)
            /\ UNCHANGED <<ret, dst, outcome, call>>
       ELSE IF ctxDone(ctxState)
       THEN /\ Return(ctxErr(ctxState), f.rec, dst)
            /\ hist' = Closed(Observed(Calls(hist, 1), "nextpath", ctxErr(ctxState)), f)
       ELSE \E mp \in f.paths :
            /\ stack' = SetTop([f EXCEPT !.paths = @ \ {mp}, !.mo = mergeTags(f.mo, mp)])
            /\ hist' = Calls(hist, 1)
            /\ UNCHANGED <<ret, dst, outcome, call>>
    /\ UNCHANGED <<aux, c, pkgGenerateID, typeToIRI, iriToType, store, wrote, ctxState>>

\* the outcome of loadToValue for one result, lines 905-919
LIAfterLoad ==
    /\ Running("LI", "loading")
    /\ LET f  == Top
           single == f.kind = "single"
           rec1 == IF single THEN ret.val ELSE f.rec
           d1 == IF single /\ Len(stack) = 1 THEN [dst EXCEPT !.single = ret.val] ELSE dst
       IN  IF ret.err = errRequiredFieldIsMissing
           THEN IF single
                THEN Return(ret.err, rec1, d1) /\ hist' = Closed(hist, f)
                ELSE /\ stack' = SetTop([f EXCEPT !.pc = "next"])
                     /\ hist' = [hist EXCEPT !.skipped = @ + 1]
                     /\ UNCHANGED <<ret, dst, outcome, call>>
           ELSE IF ret.err # NoErr
           THEN Return(ret.err, rec1, d1) /\ hist' = Closed(hist, f)
           ELSE IF ~single
           THEN /\ dst' = [dst EXCEPT !.seq = Append(@, ret.val)]
                /\ stack' = SetTop([f EXCEPT !.pc = "next"])
                /\ UNCHANGED <<ret, outcome, call, hist>>
           ELSE Return(NoErr, rec1, d1) /\ hist' = Closed(hist, f)
    /\ UNCHANGED <<aux, c, pkgGenerateID, typeToIRI, iriToType, store, wrote, ctxState>>

\* after the last result, lines 921-936
LIAfterLoop ==
    /\ Running("LI", "after")
    /\ LET f == Top IN
       IF f.kind # "single"
       THEN Return(NoErr, f.rec, dst) /\ hist' = Closed(hist, f)
       ELSE IF ~f.listNil
       THEN /\ Return(IF \E k \in 1..Len(f.list) : f.list[k] \in NodesAll(store)
                      THEN errRequiredFieldIsMissing ELSE errNotFound, f.rec, dst)
            /\ hist' = Closed(Closed(Opened(Calls(hist, 1), 1), [f EXCEPT !.listNil = TRUE]), f)
       ELSE Return(errNotFound, f.rec, dst) /\ hist' = Closed(hist, f)
    /\ UNCHANGED <<aux, c, pkgGenerateID, typeToIRI, iriToType, store, wrote, ctxState>>

\* loadToValue, lines 593-622: the rules and the required-field check
LVEnter ==
    /\ Running("LV", "enter")
    /\ LET f == Top IN
       IF requiredMissing(f.fields, f.mo, f.depth)
       THEN Return(errRequiredFieldIsMissing, f.rec, dst)
       ELSE /\ stack' = SetTop([f EXCEPT !.pc = "field", !.i = 1])
            /\ UNCHANGED <<ret, dst, outcome, call>>
    /\ UNCHANGED <<aux, c, pkgGenerateID, typeToIRI, iriToType, store, wrote, ctxState, hist>>

\* loadToValue, lines 623-655: the context check and the look at one field
LVField ==
    /\ Running("LV", "field")
    /\ LET f == Top IN
       IF f.i > NumField(f.et)
       THEN Return(NoErr, f.rec, dst) /\ UNCHANGED hist
       ELSE IF ctxDone(ctxState)
       THEN /\ Return(contextCanceled, f.rec, dst)
            /\ hist' = Observed(hist, "field", contextCanceled)
       ELSE LET fld == Fields(f.et)[f.i]
                key == f.pref \o fld.Name
            IN  /\ stack' =
                     IF fld.Anonymous
                     THEN Append(SetTop([f EXCEPT !.pc = "anon"]),
                                 LVFrame(fld.Elem, f.depth, f.mo, f.fields,
                                         key \o ".", f.rec.F[fld.Name]))
                     ELSE IF Get(f.fields, key, NilRule) = NilRule
                             \/ Len(Get(f.mo, key, <<>>)) = 0
                     THEN SetTop([f EXCEPT !.i = @ + 1])
                     ELSE SetTop([f EXCEPT !.pc = "elem", !.j = 1])
                /\ UNCHANGED <<ret, dst, outcome, call, hist>>
    /\ UNCHANGED <<aux, c, pkgGenerateID, typeToIRI, iriToType, store, wrote, ctxState>>

\* loadToValue, lines 656-678: one harvested value of the field
LVElem ==
    /\ Running("LV", "elem")
    /\ LET f   == Top
           fld == Fields(f.et)[f.i]
           arr == f.mo[f.pref \o fld.Name]
           fv  == NameOf(store, arr[f.j])
           sv  == SetValue(fld, f.rec.F[fld.Name], fv, FALSE)
       IN  IF f.j > Len(arr)
           THEN /\ stack' = SetTop([f EXCEPT !.pc = "field", !.i = @ + 1])
                /\ UNCHANGED <<ret, dst, outcome, call, hist>>
           ELSE IF ~isNative(fld.Elem)
           THEN /\ stack' = Append(SetTop([f EXCEPT !.pc = "rec"]),
                                   LIFrame(fld.Elem, nestedDepth(f.depth), FALSE, <<arr[f.j]>>,
                                           "single"))
                /\ hist' = Opened([hist EXCEPT !.nested = @ + 1,
                                        !.nestedRootOnly = @ + (IF nestedDepth(f.depth) = 0 THEN 1 ELSE 0)], 1)
                /\ UNCHANGED <<ret, dst, outcome, call>>
           ELSE IF fv = NilValue
           THEN /\ stack' = SetTop([f EXCEPT !.j = @ + 1])
                /\ hist' = Names(hist, 1)
                /\ UNCHANGED <<ret, dst, outcome, call>>
           ELSE IF sv.err # NoErr
           THEN Return(Err("field", fld.Name, sv.err.k), f.rec, dst) /\ hist' = Names(hist, 1)
           ELSE /\ stack' = SetTop([f EXCEPT !.j = @ + 1, !.rec.F[fld.Name] = sv.val])
                /\ hist' = Names(hist, 1)
                /\ UNCHANGED <<ret, dst, outcome, call>>
    /\ UNCHANGED <<aux, c, pkgGenerateID, typeToIRI, iriToType, store, wrote, ctxState>>

\* loadToValue, lines 662-667 and 675-677: the nested load has returned
LVAfterRec ==
    /\ Running("LV", "rec")
    /\ LET f   == Top
           fld == Fields(f.et)[f.i]
           sv  == SetValue(fld, f.rec.F[fld.Name], ret.val, TRUE)
       IN  IF ret.err = errRequiredFieldIsMissing
           THEN /\ stack' = SetTop([f EXCEPT !.pc = "elem", !.j = @ + 1])
                /\ UNCHANGED <<ret, dst, outcome, call>>
           ELSE IF ret.err # NoErr
           THEN Return(ret.err, f.rec, dst)
           ELSE /\ stack' = SetTop([f EXCEPT !.pc = "elem", !.j = @ + 1,
                                             !.rec.F[fld.Name] = sv.val])
                /\ UNCHANGED <<ret, dst, outcome, call>>
    /\ UNCHANGED <<aux, c, pkgGenerateID, typeToIRI, iriToType, store, wrote, ctxState, hist>>

\* loadToValue, lines 636-639: the load of an anonymous field has returned
LVAfterAnon ==
    /\ Running("LV", "anon")
    /\ LET f    == Top
           fld  == Fields(f.et)[f.i]
           rec1 == [f.rec EXCEPT !.F[fld.Name] = ret.val]
       IN  IF ret.err # NoErr
           THEN Return(WrapAnon(fld.Name, ret.err), rec1, dst)
           ELSE /\ stack' = SetTop([f EXCEPT !.pc = "field", !.i = @ + 1, !.rec = rec1])
                /\ UNCHANGED <<ret, dst, outcome, call>>
    /\ UNCHANGED <<aux, c, pkgGenerateID, typeToIRI, iriToType, store, wrote, ctxState, hist>>

\* writes into an empty store and the load of what was written
Next ==
    \/ \E iriv \in RegIRIs : \E obj \in RegTypes \cup {"nil"} : RegisterType(iriv, obj)
    \/ \E o \in Records : Write(o)
    \/ LoadWritten
    \/ LIEnter \/ LINext \/ LINextPath \/ LIAfterLoad \/ LIAfterLoop
    \/ LVEnter \/ LVField \/ LVElem \/ LVAfterRec \/ LVAfterAnon

Spec == Init /\ [][Next]_vars

\* loads from any store, under a context that may be cancelled or time out
NextLoad ==
    \/ \E q \in RawQuads : AddQuad(q)
    \/ \E et \in LoadTypes : \E kind \in LoadKinds : \E depth \in LoadDepths :
         \E ids \in LoadIds : StartLoad(et, kind, depth, ids)
    \/ Cancel
    \/ Deadline
    \/ LIEnter \/ LINext \/ LINextPath \/ LIAfterLoad \/ LIAfterLoop
    \/ LVEnter \/ LVField \/ LVElem \/ LVAfterRec \/ LVAfterAnon

SpecLoad == InitLoad /\ [][NextLoad]_vars

\* a step of the running load: the goroutine that called LoadToDepth keeps running
LoadStep ==
    \/ LIEnter \/ LINext \/ LINextPath \/ LIAfterLoad \/ LIAfterLoop
    \/ LVEnter \/ LVField \/ LVElem \/ LVAfterRec \/ LVAfterAnon

\* loads from a store that is already filled, by a caller that keeps running
NextCancel ==
    \/ \E et \in LoadTypes : \E kind \in LoadKinds : \E depth \in LoadDepths :
         \E ids \in LoadIds : StartLoad(et, kind, depth, ids)
    \/ Cancel
    \/ Deadline
    \/ LoadStep

SpecCancel == InitCancel /\ [][NextCancel]_vars /\ WF_vars(LoadStep)

\* records that point at each other
n1 == IRI("n", "n1")
n2 == IRI("n", "n2")

\* stores of linked nodes: a cycle of two, a node linked to itself, a cycle
\* with a way out
CyclicStores ==
    { { Quad(n1, Pd("next"), n2, NilValue), Quad(n2, Pd("next"), n1, NilValue) },
      { Quad(n1, Pd("next"), n1, NilValue) },
      { Quad(n1, Pd("next"), n2, NilValue), Quad(n2, Pd("next"), n1, NilValue),
        Quad(n2, Pd("next"), IRI("n", "n3"), NilValue) } }

InitDepth ==
    /\ AuxInit
    /\ c \in {cfg \in Configs : cfg.IRIs = IRINative /\ cfg.GenerateID = "nil"}
    /\ pkgGenerateID = "nil"
    /\ typeToIRI = [x \in {} |-> NilValue]
    /\ iriToType = [x \in {} |-> ""]
    /\ store \in CyclicStores
    /\ wrote = <<>>
    /\ ctxState = "live"
    /\ call = NoCall
    /\ stack = <<>>
    /\ ret = [err |-> NoErr, val |-> ZeroStruct("Base")]
    /\ dst = [single |-> ZeroStruct("Base"), seq |-> <<>>, closed |-> FALSE]
    /\ outcome = [done |-> FALSE, err |-> NoErr]
    /\ hist = NoHist

\* LoadToDepth and LoadIteratorToDepth of linked records, with a depth limit,
\* by a caller that keeps running
NextDepth ==
    \/ \E kind \in LoadKinds : \E depth \in 0..MaxDepth : \E ids \in {<<>>, <<n1>>} :
         StartLoad("Node", kind, depth, ids)
    \/ LoadStep

SpecDepth == InitDepth /\ [][NextDepth]_vars /\ WF_vars(LoadStep)

\* the errors QuadWriter.Close may return
CloseErrors == {NoErr, ErrMsg("writer close failed", "")}

\* mutation of Close: the store is left open when closing the writer failed
CloseEarlyReturn(h, werr) ==
    IF h.pc = "open"
    THEN [h EXCEPT !.pc = "writerClosed", !.log = Append(@, "QuadWriter"), !.err = werr]
    ELSE IF h.pc = "writerClosed"
    THEN IF h.err # NoErr THEN [h EXCEPT !.pc = "returned", !.ret = h.err]
         ELSE [h EXCEPT !.pc = "storeClosed", !.log = Append(@, "QuadStore")]
    ELSE [h EXCEPT !.pc = "returned", !.ret = h.err]

\* Handle.Close, one statement at a time: h.QuadWriter.Close() returning werr,
\* h.QuadStore.Close(), return err
Close(h, werr) ==
    IF h.pc = "open"
    THEN [h EXCEPT !.pc = "writerClosed", !.log = Append(@, "QuadWriter"), !.err = werr]
    ELSE IF h.pc = "writerClosed"
    THEN [h EXCEPT !.pc = "storeClosed", !.log = Append(@, "QuadStore")]
    ELSE [h EXCEPT !.pc = "returned", !.ret = h.err]

\* a quad added through the Handle's writer
HandleAddQuad(q) ==
    /\ handle.pc = "open"
    /\ Cardinality(store) < MaxRaw
    /\ q \notin store
    /\ store' = store \cup {q}
    /\ UNCHANGED <<locks, gos, handle, iter, probe, c, pkgGenerateID, typeToIRI, iriToType, wrote,
                   ctxState, call, stack, ret, dst, outcome, hist>>

\* the next statement of Handle.Close
HandleClose ==
    /\ handle.pc # "returned"
    /\ \E werr \in CloseErrors : handle' = Close(handle, werr)
    /\ UNCHANGED <<locks, gos, iter, probe, c, pkgGenerateID, typeToIRI, iriToType, store, wrote,
                   ctxState, call, stack, ret, dst, outcome, hist>>

\* a Handle is written through and then closed
NextHandle ==
    \/ \E q \in RawQuads : HandleAddQuad(q)
    \/ HandleClose

SpecHandle == InitLoad /\ [][NextHandle]_vars

----------------------------------------------------------------------------
(* Iterators: Fixed, And and Count, driven as TestCount drives them *)

\* Fixed.Next, Fixed.Result, Fixed.Contains (key equality) and Fixed.Reset
FixedNext(f) ==
    IF f.i < Len(f.vals) THEN [ok |-> TRUE, it |-> [f EXCEPT !.i = @ + 1]]
    ELSE [ok |-> FALSE, it |-> f]

FixedResult(f) == f.vals[f.i]

FixedContains(f, x) == \E k \in 1..Len(f.vals) : f.vals[k] = x

FixedReset(f) == [f EXCEPT !.i = 0]

\* mutation of AndNext: the second child is not consulted
AndNextNoCheck(a, b) ==
    LET n == FixedNext(a) IN [ok |-> n.ok, a |-> n.it, b |-> b]

\* And.Next: advance the primary child to its next result the other child contains
RECURSIVE AndNext(_, _)
AndNext(a, b) ==
    LET n == FixedNext(a) IN
    IF ~n.ok THEN [ok |-> FALSE, a |-> n.it, b |-> b]
    ELSE IF FixedContains(b, FixedResult(n.it)) THEN [ok |-> TRUE, a |-> n.it, b |-> b]
    ELSE AndNext(n.it, b)

\* Next of the Count's child: the Fixed itself, or the And of both
ChildNext(it) ==
    IF it.isAnd THEN AndNext(it.a, it.b)
    ELSE LET n == FixedNext(it.a) IN [ok |-> n.ok, a |-> n.it, b |-> it.b]

\* the child drained from where it stands, counting its results
RECURSIVE Drain(_, _)
Drain(it, n) ==
    LET r == ChildNext(it) IN
    IF r.ok THEN Drain([it EXCEPT !.a = r.a, !.b = r.b], n + 1)
    ELSE [it |-> [it EXCEPT !.a = r.a, !.b = r.b], n |-> n]

\* mutation of CountNext: the iterator is not marked done
CountNextNotDone(it) ==
    LET d == Drain(it, 0) IN
    [d.it EXCEPT !.result = QInt(d.n), !.ok = TRUE]

\* Count.Next: one result, Int of the child's cardinality, then no more
CountNext(it) ==
    IF it.done THEN [it EXCEPT !.ok = FALSE]
    ELSE LET d == Drain(it, 0) IN
         [d.it EXCEPT !.done = TRUE, !.result = QInt(d.n), !.ok = TRUE]

\* Count.Contains: the count is computed if it was not yet; true for that value only
CountContains(it, x) ==
    LET cnt == IF it.done THEN it ELSE [CountNext(it) EXCEPT !.ok = it.ok] IN
    [cnt EXCEPT !.asked = x, !.ans = (x = cnt.result)]

\* mutation of CountReset: the child is left where it stands
CountResetOwnOnly(it) ==
    [it EXCEPT !.done = FALSE, !.result = NilValue]

\* Count.Reset: the iterator and its children back to their initial state
CountReset(it) ==
    [it EXCEPT !.done = FALSE, !.result = NilValue,
               !.a = FixedReset(@), !.b = FixedReset(@)]

\* Count.TagResults: every tag name of the Tagger bound to the current result
CountTagResults(it) == [t \in it.tags |-> it.result]

\* the values TestCount puts into fixed iterators and asks Contains about
IterVals == {QString("a"), QString("b"), QString("c")}
IterAsked == {QInt(0), QInt(2), QInt(3), QString("a")}
IterTags == {"count"}

\* the argument lists of NewFixed: each subset of IterVals, in one order
RECURSIVE SubSeqs(_)
SubSeqs(q) ==
    IF q = <<>> THEN {<<>>}
    ELSE LET rest == SubSeqs(Tail(q)) IN rest \cup {<<Head(q)>> \o r : r \in rest}

FixedArgs == SubSeqs(<<QString("a"), QString("b"), QString("c")>>)

\* fixed := NewFixed(vs...)
ItNewFixed(vs) ==
    /\ iter.pc = "none"
    /\ iter' = [iter EXCEPT !.pc = "fixed", !.a = NewFixed(vs)]
    /\ UNCHANGED <<locks, gos, handle, probe, c, pkgGenerateID, typeToIRI, iriToType, store,
                   wrote, ctxState, call, stack, ret, dst, outcome, hist>>

\* it := NewCount(fixed, nil)
ItNewCount ==
    /\ iter.pc = "fixed"
    /\ iter' = [iter EXCEPT !.pc = "count"]
    /\ UNCHANGED <<locks, gos, handle, probe, c, pkgGenerateID, typeToIRI, iriToType, store,
                   wrote, ctxState, call, stack, ret, dst, outcome, hist>>

\* fixed.Reset()
ItFixedReset ==
    /\ iter.pc = "count" /\ ~iter.isAnd /\ iter.a.i > 0
    /\ iter' = [iter EXCEPT !.a = FixedReset(@)]
    /\ UNCHANGED <<locks, gos, handle, probe, c, pkgGenerateID, typeToIRI, iriToType, store,
                   wrote, ctxState, call, stack, ret, dst, outcome, hist>>

\* it = NewCount(NewAnd(nil, fixed, fixed2), nil) with fixed2 := NewFixed(vs...)
ItNewAnd(vs) ==
    /\ iter.pc = "count" /\ ~iter.isAnd
    /\ iter' = [NoIter EXCEPT !.pc = "count", !.isAnd = TRUE, !.a = iter.a,
                              !.b = NewFixed(vs), !.fresh = (iter.a.i = 0),
                              !.drained = iter.drained]
    /\ UNCHANGED <<locks, gos, handle, probe, c, pkgGenerateID, typeToIRI, iriToType, store,
                   wrote, ctxState, call, stack, ret, dst, outcome, hist>>

\* it.Next(ctx)
ItNext ==
    /\ iter.pc = "count" /\ iter.nexts < MaxNexts
    /\ iter' = LET n == CountNext(iter) IN
               [n EXCEPT !.nexts = @ + 1,
                         !.drained = @ \/ (~iter.isAnd /\ n.ok),
                         !.first = IF iter.resets = 0 /\ n.ok THEN n.result ELSE @]
    /\ UNCHANGED <<locks, gos, handle, probe, c, pkgGenerateID, typeToIRI, iriToType, store,
                   wrote, ctxState, call, stack, ret, dst, outcome, hist>>

\* it.Contains(ctx, graph.PreFetched(x))
ItContains(x) ==
    /\ iter.pc = "count"
    /\ iter' = [CountContains(iter, x) EXCEPT !.probed = TRUE]
    /\ UNCHANGED <<locks, gos, handle, probe, c, pkgGenerateID, typeToIRI, iriToType, store,
                   wrote, ctxState, call, stack, ret, dst, outcome, hist>>

\* it.Reset()
ItReset ==
    /\ iter.pc = "count" /\ iter.resets < MaxResets
    /\ iter' = [CountReset(iter) EXCEPT !.resets = @ + 1, !.nexts = 0, !.probed = FALSE]
    /\ UNCHANGED <<locks, gos, handle, probe, c, pkgGenerateID, typeToIRI, iriToType, store,
                   wrote, ctxState, call, stack, ret, dst, outcome, hist>>

\* it.Tagger().Add(t)
ItTaggerAdd(t) ==
    /\ iter.pc = "count" /\ t \notin iter.tags
    /\ iter' = [iter EXCEPT !.tags = @ \cup {t},
                            !.late = IF iter.resets > 0 THEN @ \cup {t} ELSE @]
    /\ UNCHANGED <<locks, gos, handle, probe, c, pkgGenerateID, typeToIRI, iriToType, store,
                   wrote, ctxState, call, stack, ret, dst, outcome, hist>>

\* m := make(map[string]graph.Value); it.TagResults(m)
ItTagResults ==
    /\ iter.pc = "count"
    /\ iter' = [iter EXCEPT !.m = CountTagResults(iter)]
    /\ UNCHANGED <<locks, gos, handle, probe, c, pkgGenerateID, typeToIRI, iriToType, store,
                   wrote, ctxState, call, stack, ret, dst, outcome, hist>>

\* the calls of TestCount, in any order and on any fixed sets
NextCount ==
    \/ \E vs \in FixedArgs : ItNewFixed(vs)
    \/ ItNewCount
    \/ ItFixedReset
    \/ \E vs \in FixedArgs : ItNewAnd(vs)
    \/ ItNext
    \/ \E x \in IterAsked : ItContains(x)
    \/ ItReset
    \/ \E t \in IterTags : ItTaggerAdd(t)
    \/ ItTagResults

SpecCount == InitLoad /\ [][NextCount]_vars

----------------------------------------------------------------------------
(* fieldRule on one struct field *)

\* the words after the first comma of a quad tag
Mods == {"opt", "optional", "req", "required", "omitempty"}

RECURSIVE ModSeqs(_)
ModSeqs(n) ==
    IF n = 0 THEN {<<>>}
    ELSE LET shorter == ModSeqs(n - 1) IN
         shorter \cup {Append(q, w) : q \in shorter, w \in Mods}

\* struct fields with a forward, a reverse, a constraint, a json-named or an ignored tag
ProbeFields ==
    {Fld("F", FALSE, kind, "string", t.segs, t.sep, sub, t.json) :
        kind \in {"scalar", "slice"}, sub \in ModSeqs(MaxMods),
        t \in {[segs |-> <<"p">>, sep |-> "", json |-> ""],
               [segs |-> <<"p", "o">>, sep |-> "<", json |-> ""],
               [segs |-> <<"p", "v">>, sep |-> ">", json |-> ""],
               [segs |-> <<>>, sep |-> "", json |-> "p"],
               [segs |-> <<"-">>, sep |-> "", json |-> ""]}}

\* rule, err := c.fieldRule(fld)
FieldRule(fld) ==
    /\ probe' = LET r == fieldRule(c, fld) IN
                [called |-> TRUE, fld |-> fld, rule |-> r.rule, err |-> r.err]
    /\ UNCHANGED <<locks, gos, handle, iter, c, pkgGenerateID, typeToIRI, iriToType, store,
                   wrote, ctxState, call, stack, ret, dst, outcome, hist>>

NextRule == \E fld \in ProbeFields : FieldRule(fld)

SpecRule == InitLoad /\ [][NextRule]_vars

\* registrations, collisions and un-registrations in any order
NextReg ==
    \E iriv \in RegAllIRIs : \E obj \in RegAllTypes \cup {"nil"} : RegisterTypeAgain(iriv, obj)

SpecReg == InitLoad /\ [][NextReg]_vars

-----------------------------------------------------------------------------
(* Concurrent callers of rulesFor and makePathForType on one Config *)

\* the types the concurrent callers ask for, and the prefix of an embedded record
ConcTypes == {"Item", "Note"}
ConcPref == "Base."

\* the mutex that guards the cache function fn works on
MutexOf(fn) == IF fn = "rulesFor" THEN "rulesForTypeMu" ELSE "pathForTypeMu"

\* the cache field function fn looks into and inserts into
CacheOf(fn, rootOnly) ==
    IF fn = "rulesFor" THEN "rulesForType"
    ELSE IF rootOnly THEN "pathForTypeRoot" ELSE "pathForType"

\* what goroutine g's call derives when the cache does not hold its type:
\* rulesForStructTo's out, or the path makePathForType builds
Derived(g) ==
    IF g.fn = "rulesFor"
    THEN Once({[res |-> r.out, err |-> r.err] : r \in {rulesForStructTo(c, EmptyRules, "", g.rt)}})
    ELSE Once({[res |-> r.p, err |-> r.err] :
                 r \in {makePathFieldsFrom(CurEnv, Caches(c.pathForType, c.pathForTypeRoot),
                                           g.rt, ConcPref, g.rootOnly,
                                           pathTypeHas(CurEnv, Get(typeToIRI, g.rt, IRI("n", ""))),
                                           1)}})

\* a goroutine's call returns
GoReturn(g, res, err) ==
    [g EXCEPT !.pc = "idle", !.got = Append(@, [fn |-> g.fn, rt |-> g.rt, rootOnly |-> g.rootOnly,
                                               res |-> res, err |-> err])]

\* goroutine p calls c.rulesFor(rt) or c.makePathForType(rt, tagPref, rootOnly), tagPref # ""
GoCall(p, fn, rt, rootOnly) ==
    /\ gos[p].pc = "idle" /\ gos[p].n < MaxJobs
    /\ gos' = [gos EXCEPT ![p] = [@ EXCEPT !.pc = "rlock", !.fn = fn, !.rt = rt,
                                            !.rootOnly = rootOnly, !.n = @ + 1]]
    /\ UNCHANGED <<handle, iter, probe, c, pkgGenerateID, typeToIRI, iriToType, store, wrote, ctxState, call, stack,
                   ret, dst, outcome, hist, locks>>

\* RLock of the cache's mutex, lines 514 and 363
GoRLock(p) ==
    /\ gos[p].pc = "rlock"
    /\ locks[MutexOf(gos[p].fn)].w = 0
    /\ locks' = [locks EXCEPT ![MutexOf(gos[p].fn)].r = @ \cup {p}]
    /\ gos' = [gos EXCEPT ![p].pc = "lookup"]
    /\ UNCHANGED <<handle, iter, probe, c, pkgGenerateID, typeToIRI, iriToType, store, wrote, ctxState, call, stack,
                   ret, dst, outcome, hist>>

\* the lookup in the cache, lines 515 and 364-368
GoLookup(p) ==
    /\ gos[p].pc = "lookup"
    /\ LET m == c[CacheOf(gos[p].fn, gos[p].rootOnly)] IN
       gos' = [gos EXCEPT ![p] = [@ EXCEPT !.pc = "runlock", !.ok = gos[p].rt \in DOMAIN m,
                                           !.res = IF gos[p].rt \in DOMAIN m THEN m[gos[p].rt]
                                                   ELSE <<>>]]
    /\ UNCHANGED <<handle, iter, probe, c, pkgGenerateID, typeToIRI, iriToType, store, wrote, ctxState, call, stack,
                   ret, dst, outcome, hist, locks>>

\* RUnlock and the return of a cached value, lines 516-519 and 369-372
GoRUnlock(p) ==
    /\ gos[p].pc = "runlock"
    /\ locks' = [locks EXCEPT ![MutexOf(gos[p].fn)].r = @ \ {p}]
    /\ gos' = [gos EXCEPT ![p] = IF gos[p].ok THEN GoReturn(gos[p], gos[p].res, NoErr)
                                  ELSE [@ EXCEPT !.pc = "derive", !.i = 1]]
    /\ UNCHANGED <<handle, iter, probe, c, pkgGenerateID, typeToIRI, iriToType, store, wrote, ctxState, call, stack,
                   ret, dst, outcome, hist>>

\* c.fieldRule(f) for the i-th field, lines 496 and 393: the value receiver
\* copies the Config; after the last field the derived value is at hand
GoFieldRule(p) ==
    /\ gos[p].pc = "derive"
    /\ gos' = [gos EXCEPT ![p] =
         IF gos[p].i < NumField(gos[p].rt) THEN [@ EXCEPT !.i = @ + 1]
         ELSE Once({IF d.err # NoErr THEN GoReturn(gos[p], <<>>, d.err)
                    ELSE [gos[p] EXCEPT !.pc = "lock", !.res = d.res] : d \in {Derived(gos[p])}})]
    /\ UNCHANGED <<handle, iter, probe, c, pkgGenerateID, typeToIRI, iriToType, store, wrote, ctxState, call, stack,
                   ret, dst, outcome, hist, locks>>

\* Lock of the cache's mutex, lines 524 and 448
GoLock(p) ==
    /\ gos[p].pc = "lock"
    /\ locks[MutexOf(gos[p].fn)] = FreeMutex
    /\ locks' = [locks EXCEPT ![MutexOf(gos[p].fn)].w = p]
    /\ gos' = [gos EXCEPT ![p].pc = "init"]
    /\ UNCHANGED <<handle, iter, probe, c, pkgGenerateID, typeToIRI, iriToType, store, wrote, ctxState, call, stack,
                   ret, dst, outcome, hist>>

\* the map is made when the cache field is nil, lines 525-527 and 450-463
GoInit(p) ==
    /\ gos[p].pc = "init"
    /\ gos' = [gos EXCEPT ![p].pc = "insert"]
    /\ UNCHANGED <<handle, iter, probe, c, pkgGenerateID, typeToIRI, iriToType, store, wrote, ctxState, call, stack,
                   ret, dst, outcome, hist, locks>>

\* the insertion into the cache, lines 528 and 464
GoInsert(p) ==
    /\ gos[p].pc = "insert"
    /\ c' = [c EXCEPT ![CacheOf(gos[p].fn, gos[p].rootOnly)] = Put(@, gos[p].rt, gos[p].res)]
    /\ gos' = [gos EXCEPT ![p].pc = "unlock"]
    /\ UNCHANGED <<handle, iter, probe, pkgGenerateID, typeToIRI, iriToType, store, wrote, ctxState, call, stack,
                   ret, dst, outcome, hist, locks>>

\* Unlock and the return of the derived value, lines 529-530 and 449, 465
GoUnlock(p) ==
    /\ gos[p].pc = "unlock"
    /\ locks' = [locks EXCEPT ![MutexOf(gos[p].fn)].w = 0]
    /\ gos' = [gos EXCEPT ![p] = GoReturn(gos[p], gos[p].res, NoErr)]
    /\ UNCHANGED <<handle, iter, probe, c, pkgGenerateID, typeToIRI, iriToType, store, wrote, ctxState, call, stack,
                   ret, dst, outcome, hist>>

\* the goroutines interleave at every access to the locks and the caches
NextConc ==
    \/ \E p \in Go : \E rt \in ConcTypes : GoCall(p, "rulesFor", rt, FALSE)
    \/ \E p \in Go : \E rt \in ConcTypes : \E ro \in BOOLEAN : GoCall(p, "makePathForType", rt, ro)
    \/ \E p \in Go : GoRLock(p)
    \/ \E p \in Go : GoLookup(p)
    \/ \E p \in Go : GoRUnlock(p)
    \/ \E p \in Go : GoFieldRule(p)
    \/ \E p \in Go : GoLock(p)
    \/ \E p \in Go : GoInit(p)
    \/ \E p \in Go : GoInsert(p)
    \/ \E p \in Go : GoUnlock(p)

SpecConc == InitLoad /\ [][NextConc]_vars

-----------------------------------------------------------------------------
(* What the properties speak of *)

\* a value brought to the Config's IRI mode
Norm(v) == IF v.k = "iri" THEN iri(c, v) ELSE v

\* a Go value as the quad value written for it
QV(v) == IF v.k = "gostr" THEN QString(v.s) ELSE v

RECURSIVE SameRecord(_, _)
\* two values of a field are equal: scalars after normalisation, sequences as
\* the same values in some order, records field by field
SameField(fld, a, b) ==
    IF fld.Kind = "slice"
    THEN IF IsStruct(fld.Elem)
         THEN /\ \A x \in 1..Len(a) : \E y \in 1..Len(b) : SameRecord(a[x], b[y])
              /\ \A y \in 1..Len(b) : \E x \in 1..Len(a) : SameRecord(a[x], b[y])
         ELSE {Norm(a[x]) : x \in 1..Len(a)} = {Norm(b[y]) : y \in 1..Len(b)}
    ELSE IF IsStruct(fld.Elem) THEN SameRecord(a, b)
    ELSE Norm(a) = Norm(b)

SameRecord(a, b) ==
    /\ a.T = b.T
    /\ \A i \in 1..NumField(a.T) :
         SameField(Fields(a.T)[i], a.F[Fields(a.T)[i].Name], b.F[Fields(a.T)[i].Name])

RECURSIVE FlatFields(_, _)
\* the fields of a record under their dotted names, embedded records opened up
FlatFields(rv, pref) ==
    UNION { IF Fields(rv.T)[i].Anonymous
            THEN FlatFields(rv.F[Fields(rv.T)[i].Name], pref \o Fields(rv.T)[i].Name \o ".")
            ELSE {[name |-> pref \o Fields(rv.T)[i].Name, fld |-> Fields(rv.T)[i],
                   val |-> rv.F[Fields(rv.T)[i].Name]]} : i \in 1..NumField(rv.T) }

RECURSIVE EmbeddedTypes(_)
\* the types of the anonymously embedded records of a type, at any depth
EmbeddedTypes(t) ==
    UNION { {Fields(t)[i].Elem} \cup EmbeddedTypes(Fields(t)[i].Elem) :
              i \in {j \in 1..NumField(t) : Fields(t)[j].Anonymous} }

\* the rules of the type of record o
RulesOf(o) == rulesFor(c, c.rulesForType, o.T).rules

\* the values a field holds: the non-zero scalar, the non-zero elements of a sequence
HeldValues(ff) ==
    IF ff.fld.Kind = "slice"
    THEN {<<j, ff.val[j]>> : j \in {x \in 1..Len(ff.val) : ff.val[x] # ZeroOf(ff.fld.Elem)}}
    ELSE IF ff.val # ZeroOf(ff.fld.Elem) THEN {<<1, ff.val>>} ELSE {}

\* a quad about identity i, turned around for a reverse rule
QuadAbout(i, r, v) ==
    IF r.Rev THEN Quad(v, r.Pred, i, c.Label) ELSE Quad(i, r.Pred, v, c.Label)

\* the (field, value) pairs of record o that the rules turn into quads
QuadSources(o) ==
    UNION { IF Get(RulesOf(o), ff.name, NilRule).k = "save"
            THEN {<<ff.name, hv[1], QuadAbout(NilValue, Get(RulesOf(o), ff.name, NilRule), QV(hv[2]))>> :
                    hv \in HeldValues(ff)}
            ELSE IF Get(RulesOf(o), ff.name, NilRule).k = "constraint"
            THEN {<<ff.name, 1, NilValue>>}
            ELSE {} : ff \in FlatFields(o, "") }

\* the quads the rules ask for, for record o with identity i
ExpectedQuads(o, i) ==
    UNION { IF Get(RulesOf(o), ff.name, NilRule).k = "save"
            THEN {QuadAbout(i, Get(RulesOf(o), ff.name, NilRule), QV(hv[2])) : hv \in HeldValues(ff)}
            ELSE IF Get(RulesOf(o), ff.name, NilRule).k = "constraint"
            THEN {QuadAbout(i, Get(RulesOf(o), ff.name, NilRule),
                            Get(RulesOf(o), ff.name, NilRule).Val)}
            ELSE {} : ff \in FlatFields(o, "") }

\* the record types without record-valued fields
FlatTypes == {"Base", "Item", "Person", "Tagged", "Rev", "Note", "Two"}

\* the value of the @id field record o declares, its own or an embedded record's
DeclaredId(o) ==
    IF "ID" \in DOMAIN o.F THEN o.F["ID"]
    ELSE IF "Base" \in DOMAIN o.F THEN o.F["Base"].F["ID"]
    ELSE NilValue

\* the identity a WriteAsQuads call worked with
UsedId(w) ==
    IF DeclaredId(w.o) # NilValue THEN iri(c, DeclaredId(w.o))
    ELSE IF Len(w.gens) > 0 THEN w.gens[1].id
    ELSE NilValue

QuadSet(w) == {w.quads[k] : k \in 1..Len(w.quads)}

\* the quads of a call that one of the record's own rules accounts for
OwnQuads(w) ==
    {q \in QuadSet(w) : \E n \in DOMAIN RulesOf(w.o) :
        RulesOf(w.o)[n].k \in {"save", "constraint"} /\ RulesOf(w.o)[n].Pred = q.Predicate}

\* every own quad is about identity i
AllAbout(w, i) ==
    \A q \in OwnQuads(w) : \E n \in DOMAIN RulesOf(w.o) :
        /\ RulesOf(w.o)[n].Pred = q.Predicate
        /\ (IF RulesOf(w.o)[n].Rev THEN q.Object ELSE q.Subject) = i

\* the generator genID is to prefer
PreferredGenerator ==
    IF c.GenerateID # "nil" THEN "cfg" ELSE IF pkgGenerateID # "nil" THEN "pkg" ELSE "rand"

\* the required save fields of record o that hold no value
EmptyRequired(o) ==
    {ff \in FlatFields(o, "") :
        /\ Get(RulesOf(o), ff.name, NilRule).k = "save"
        /\ ~Get(RulesOf(o), ff.name, NilRule).Opt
        /\ HeldValues(ff) = {}
        /\ (ff.fld.Kind = "slice" => ff.val = <<>>)}

-----------------------------------------------------------------------------
(* Claims about WriteAsQuads and the round trip, under Spec *)

\* C1: a record written by WriteAsQuads into an empty store and loaded by LoadTo
\* with the returned id into a fresh record of its type comes back equal field
\* by field (scalars equal, sequences the same values in some order) after IRI
\* normalisation.
C1_RoundTrip ==
    (Len(wrote) = 1 /\ wrote[1].err = NoErr /\ wrote[1].before = {} /\ outcome.done) =>
        (outcome.err = NoErr /\ SameRecord(wrote[1].o, dst.single))

\* C2 as amended: a WriteAsQuads call that succeeds for a record without
\* nested-record fields, whose type and embedded types are all unregistered,
\* writes exactly the quads its rules ask for: one per non-zero value of a save
\* field, one per constraint rule, turned around for reverse rules.
C2_ExactQuads ==
    \A k \in 1..Len(wrote) :
        (/\ wrote[k].err = NoErr
         /\ wrote[k].o.T \in FlatTypes
         /\ ({wrote[k].o.T} \cup EmbeddedTypes(wrote[k].o.T)) \cap DOMAIN typeToIRI = {}) =>
            /\ QuadSet(wrote[k]) = ExpectedQuads(wrote[k].o, wrote[k].id)
            /\ Len(wrote[k].quads) = Cardinality(QuadSources(wrote[k].o))

\* C2 as stated: any WriteAsQuads call for a record of an unregistered type
\* without nested-record fields writes exactly the quads its rules ask for.
C2_ExactQuadsAsStated ==
    \A k \in 1..Len(wrote) :
        (wrote[k].o.T \in FlatTypes /\ wrote[k].o.T \notin DOMAIN typeToIRI) =>
            QuadSet(wrote[k]) = ExpectedQuads(wrote[k].o, UsedId(wrote[k]))

\* a successful write of a record with a two-element sequence
C2_Witness ==
    \E k \in 1..Len(wrote) :
        /\ wrote[k].err = NoErr /\ wrote[k].o.T = "Person"
        /\ wrote[k].o.T \notin DOMAIN typeToIRI
        /\ Len(wrote[k].quads) = 3

\* C3: WriteAsQuads fails with ErrReqFieldNotSet naming the field whenever a
\* required save field holds no value, be it a zero scalar or an empty sequence
\* declared required.
C3_RequiredChecked ==
    \A k \in 1..Len(wrote) :
        EmptyRequired(wrote[k].o) # {} =>
            /\ wrote[k].err.k = "ErrReqFieldNotSet"
            /\ wrote[k].err.a \in {ff.fld.Name : ff \in EmptyRequired(wrote[k].o)}

\* C4 as amended: WriteAsQuads returns, and uses for every quad of the record,
\* the value of the declared @id field brought to the Config's IRI mode; only a
\* record that declares no @id field gets a generated identity, from exactly one
\* generator call, Config.GenerateID before the package-level GenerateID before
\* a random blank node.
C4_Identity ==
    \A k \in 1..Len(wrote) :
        /\ DeclaredId(wrote[k].o) # NilValue =>
             /\ wrote[k].gens = <<>>
             /\ wrote[k].err = NoErr => wrote[k].id = iri(c, DeclaredId(wrote[k].o))
        /\ DeclaredId(wrote[k].o) = NilValue =>
             /\ Len(wrote[k].gens) = 1
             /\ wrote[k].gens[1].id.k = "bnode"
             /\ wrote[k].gens[1].id.f = PreferredGenerator
             /\ wrote[k].err = NoErr => wrote[k].id = wrote[k].gens[1].id
        /\ AllAbout(wrote[k], UsedId(wrote[k]))

\* C4 as stated: the identity returned is the value of the @id field itself.
C4_IdentityAsStated ==
    \A k \in 1..Len(wrote) :
        (DeclaredId(wrote[k].o) # NilValue /\ wrote[k].err = NoErr) =>
            wrote[k].id = DeclaredId(wrote[k].o)

\* a record without @id written with both generators set
C4_Witness ==
    \E k \in 1..Len(wrote) :
        /\ wrote[k].err = NoErr /\ wrote[k].o.T = "Note"
        /\ c.GenerateID # "nil" /\ pkgGenerateID # "nil"
        /\ wrote[k].quads # <<>>

-----------------------------------------------------------------------------
(* Claims about the LoadTo family, under SpecLoad *)

\* the records the call has delivered
Delivered ==
    IF call.kind = "single"
    THEN IF outcome.done /\ outcome.err = NoErr THEN {dst.single} ELSE {}
    ELSE {dst.seq[k] : k \in 1..Len(dst.seq)}

\* the frames of loadIteratorToDepth on the stack
LILevels == {k \in 1..Len(stack) : stack[k].fn = "LI"}

\* a record none of whose save fields holds a value
OnlyId(o) == \A ff \in FlatFields(o, "") :
    Get(RulesOf(o), ff.name, NilRule).k = "save" => HeldValues(ff) = {}

\* the required save fields of string and IRI type all hold a value
NativeRequiredHeld(o) ==
    \A ff \in EmptyRequired(o) : ~isNative(ff.fld.Elem)

\* C5 as amended: LoadToDepth with depth 0 populates the root record's own
\* fields and loads each record-valued field by one root-only load, which sets
\* nothing but the nested record's @id and starts no load of its own; with a
\* negative depth no load ever runs root-only.
C5_Depth ==
    /\ (call.started /\ call.depth = 0) =>
         /\ \A k \in LILevels : k > 1 => stack[k].depth = 0
         /\ Cardinality(LILevels) <= 2
         /\ (Running("LV", "rec") /\ ret.err = NoErr) => OnlyId(ret.val)
         /\ \A o \in Delivered : NativeRequiredHeld(o)
    /\ (call.started /\ call.depth < 0) => \A k \in 1..Len(stack) : stack[k].depth < 0

\* C5 as stated: LoadToDepth with depth 0 performs no recursive load into
\* record-valued fields.
C5_DepthAsStated == (call.started /\ call.depth = 0) => hist.nested = 0

\* a depth-0 load of an Owner whose Main is in the store with its label
C5_Witness ==
    /\ call.depth = 0 /\ call.et = "Owner" /\ call.kind = "single"
    /\ outcome.done /\ outcome.err = NoErr
    /\ hist.nested > 0
    /\ Quad(i1, Pd("label"), QString("L"), NilValue) \in store
    /\ dst.single.F["Main"] = Struct("Item", [ID |-> i1, Label |-> GoString("")])

\* C6: with unlimited depth every record LoadTo delivers holds a value in every
\* required save field (scalar, required sequence or nested record), and every
\* optional field without a value in the store is left zero.
C6_RequiredPopulated ==
    (call.started /\ call.depth < 0) =>
        \A o \in Delivered :
            /\ EmptyRequired(o) = {}
            /\ \A ff \in FlatFields(o, "") :
                 (/\ Get(RulesOf(o), ff.name, NilRule).k = "save"
                  /\ Get(RulesOf(o), ff.name, NilRule).Opt
                  /\ Edges(store, DeclaredId(o), Get(RulesOf(o), ff.name, NilRule).Pred,
                           Get(RulesOf(o), ff.name, NilRule).Rev) = {})
                 => HeldValues(ff) = {}

\* C7: when loadToValue fails for one result because a required field is
\* missing, loadIteratorToDepth goes on to the next result without delivering
\* anything if the destination is a sequence or channel, and returns that error,
\* for which IsNotFound is true, if it is a single record; a sequence or channel
\* load whose results are exhausted returns nil.
C7_SkipOrSurface ==
    [][ /\ (Running("LI", "loading") /\ ret.err = errRequiredFieldIsMissing /\ stack' # stack) =>
             IF Top.kind = "single"
             THEN /\ stack' = SubSeq(stack, 1, Len(stack) - 1)
                  /\ ret'.err = errRequiredFieldIsMissing
                  /\ IsNotFound(ret'.err)
                  /\ Len(stack) = 1 => (outcome'.done /\ outcome'.err = errRequiredFieldIsMissing)
             ELSE /\ Len(stack') = Len(stack)
                  /\ stack'[Len(stack)].pc = "next"
                  /\ dst'.seq = dst.seq
                  /\ ~outcome'.done
        /\ (Running("LI", "after") /\ Top.kind # "single" /\ stack' # stack) =>
             /\ ret'.err = NoErr
             /\ Len(stack) = 1 => (outcome'.done /\ outcome'.err = NoErr)
      ]_vars

\* a channel load that skipped a record and ended with nil
C7_Witness ==
    /\ call.kind = "chan" /\ hist.skipped > 0
    /\ outcome.done /\ outcome.err = NoErr /\ dst.closed

C9_ContextError ==
    (hist.observed /\ outcome.done) => outcome.err = ctxErr(ctxState)

-----------------------------------------------------------------------------
(* Claims about iterators, caches and the registry *)

\* C11: every iterator LoadToDepth and loadIteratorToDepth create or take over
\* (the fixed start set, the fixed iterator of a nested load, the iterator of
\* the type's path, the conjunction of the existence check) is closed when the
\* call has returned, whatever the exit path.
C11_AllClosed == outcome.done => hist.open = 0

\* one access to a cache: loc is a field of the Config ("rulesForType") or the
\* map it points to ("rulesForType[]"), w tells a write from a read
Access(loc, w) == [loc |-> loc, w |-> w]

\* the fields of the Config that hold a cache
CacheFields == {"rulesForType", "pathForType", "pathForTypeRoot"}

\* the accesses the next step of goroutine g makes
NextAccesses(g) ==
    LET f == CacheOf(g.fn, g.rootOnly) IN
    IF g.pc = "lookup"
    THEN {Access(f, FALSE), Access(f \o "[]", FALSE)}
         \cup (IF g.fn = "rulesFor" THEN {} ELSE {Access("pathForType", FALSE)})
    ELSE IF g.pc = "derive" THEN {Access(x, FALSE) : x \in CacheFields}
    ELSE IF g.pc = "init" THEN {Access(f, DOMAIN c[f] = {})}
    ELSE IF g.pc = "insert" THEN {Access(f \o "[]", TRUE)}
    ELSE {}

\* two goroutines are about to access one location, one of them writing
Races(p, q) ==
    \E a \in NextAccesses(gos[p]) : \E b \in NextAccesses(gos[q]) :
        a.loc = b.loc /\ (a.w \/ b.w)

\* the lock that guards a location is held by goroutine p in the mode the access needs
Guarded(p) ==
    \A a \in NextAccesses(gos[p]) :
        IF a.w THEN locks[MutexOf(gos[p].fn)].w = p
        ELSE p \in locks[MutexOf(gos[p].fn)].r \/ locks[MutexOf(gos[p].fn)].w = p

\* what a returned call must have obtained
DerivedFor(x) ==
    Derived([IdleGo EXCEPT !.fn = x.fn, !.rt = x.rt, !.rootOnly = x.rootOnly]).res

\* C12: under any interleaving of concurrent rulesFor and makePathForType
\* calls on one Config no cache field or map is accessed while another
\* goroutine writes it, every access is made under the lock in the mode it
\* needs, and every caller obtains what is derived from the type.
C12_NoRace ==
    /\ \A p \in Go : \A q \in Go \ {p} : ~Races(p, q)
    /\ \A p \in Go : Guarded(p)
    /\ \A p \in Go : \A k \in 1..Len(gos[p].got) :
          gos[p].got[k].err = NoErr /\ gos[p].got[k].res = DerivedFor(gos[p].got[k])

\* the operators of a path without the tag names
Shape(p) == [k \in 1..Len(p) |-> [p[k] EXCEPT !.tag = ""]]

\* the path of type rt for one mode, built under no prefix
FreshPath(rt, rootOnly) ==
    makePathFieldsFrom(CurEnv, Caches(EmptyPaths, EmptyPaths), rt, "", rootOnly,
                       pathTypeHas(CurEnv, Get(typeToIRI, rt, IRI("n", ""))), 1).p

\* C13: the path of a (type, rootOnly) pair is built at most once per Config,
\* also for the top-level request of each load, and a cache holds only paths
\* of its own mode.
C13_BuiltOnce ==
    /\ \A k \in DOMAIN hist.builds : hist.builds[k] <= 1
    /\ \A rt \in DOMAIN c.pathForTypeRoot :
          Shape(c.pathForTypeRoot[rt]) = Shape(FreshPath(rt, TRUE))
    /\ \A rt \in DOMAIN c.pathForType :
          Shape(c.pathForType[rt]) = Shape(FreshPath(rt, FALSE))

\* a RegisterType call that meets a registered type or a registered full IRI
Collides(iriv, obj) ==
    obj # "nil" /\ (obj \in DOMAIN typeToIRI \/ FullIRI(iriv) \in DOMAIN iriToType)

\* C14: a RegisterType call with an IRI whose full form is registered, or with
\* a type that is registered, panics and leaves both registry maps as they were.
C14_RejectedUnchanged ==
    [][\A iriv \in RegAllIRIs : \A obj \in RegAllTypes :
         (Collides(iriv, obj) /\ RegisterTypeAgain(iriv, obj)) =>
            /\ typeToIRI' = typeToIRI
            /\ iriToType' = iriToType
            /\ hist'.panicked]_vars

\* a registration under the other form of a registered IRI was rejected
C14_Witness ==
    /\ hist.panicked /\ hist.regs = 2
    /\ typeToIRI = ("Person" :> IRI("s", "Person"))
    /\ iriToType = (IRI("f", "Person") :> "Person")

\* C15: Handle.Close closes the quad writer before the quad store, closes the
\* store also when closing the writer returned an error, and returns the
\* writer's close error.
C15_CloseOrder ==
    /\ handle.log \in {<<>>, <<"QuadWriter">>, <<"QuadWriter", "QuadStore">>}
    /\ handle.pc = "returned" =>
          /\ handle.log = <<"QuadWriter", "QuadStore">>
          /\ handle.ret = handle.err

\* a Close that returned the writer's error with the store closed
C15_Witness ==
    /\ handle.pc = "returned" /\ handle.ret # NoErr
    /\ handle.log = <<"QuadWriter", "QuadStore">> /\ store # {}

\* the values of a sequence
ValsOf(q) == {q[k] : k \in 1..Len(q)}

\* the number of results of the Count's child, read off the fixed sets
ChildCard(it) ==
    IF it.isAnd THEN Cardinality(ValsOf(it.a.vals) \cap ValsOf(it.b.vals))
    ELSE Len(it.a.vals)

RECURSIVE AndYield(_, _)
AndYield(a, b) ==
    LET n == AndNext(a, b) IN
    IF n.ok THEN <<FixedResult(n.a)>> \o AndYield(n.a, n.b) ELSE <<>>

\* C17: And(A, B) of two fixed sets, A drained and reset before, yields
\* exactly the elements of A intersect B, each once, so that Count(And(A, B))
\* emits Int(|A intersect B|) and contains only that value.
C17_AndIntersection ==
    (iter.pc = "count" /\ iter.isAnd /\ iter.fresh) =>
        /\ (iter.a.i = 0 /\ iter.b.i = 0) =>
              LET y == AndYield(iter.a, iter.b) IN
              /\ ValsOf(y) = ValsOf(iter.a.vals) \cap ValsOf(iter.b.vals)
              /\ Len(y) = Cardinality(ValsOf(y))
        /\ iter.done => iter.result = QInt(ChildCard(iter))
        /\ iter.asked # NilValue => (iter.ans = (iter.asked = QInt(ChildCard(iter))))

\* And({a,b}, {b,c}) over a drained and reset {a,b}, counted as Int(1)
C17_Witness ==
    /\ iter.pc = "count" /\ iter.isAnd /\ iter.fresh /\ iter.drained
    /\ iter.a.vals = <<QString("a"), QString("b")>>
    /\ iter.b.vals = <<QString("b"), QString("c")>>
    /\ iter.ok /\ iter.result = QInt(1)
    /\ iter.asked = QInt(2) /\ ~iter.ans

Carries(fld, w) == \E k \in 1..Len(fld.sub) : fld.sub[k] = w

\* C19: fieldRule marks a save rule optional exactly when the tag carries no
\* required/req modifier and carries optional/opt or the field is a slice;
\* required overrides an optional modifier and the slice default, and a
\* scalar field without modifier is required.
C19_Optionality ==
    (probe.called /\ probe.rule.k = "save") =>
        LET req == Carries(probe.fld, "required") \/ Carries(probe.fld, "req")
            opt == Carries(probe.fld, "optional") \/ Carries(probe.fld, "opt")
        IN  /\ probe.rule.Opt = (~req /\ (opt \/ probe.fld.Kind = "slice"))
            /\ req => ~probe.rule.Opt
            /\ (probe.fld.Kind = "scalar" /\ ~req /\ ~opt) => ~probe.rule.Opt

\* a slice field tagged optional and required, whose save rule is required
C19_Witness ==
    /\ probe.called /\ probe.rule.k = "save" /\ ~probe.rule.Opt
    /\ probe.fld.Kind = "slice" /\ probe.fld.sub = <<"optional", "required">>

\* the loadIteratorToDepth calls that are running, outermost first
LICalls == SelectSeq(stack, LAMBDA f : f.fn = "LI")

\* C20: with a depth d >= 0 LoadToDepth terminates on any store, cyclic ones
\* included: every nested load runs with a smaller depth counter than the load
\* that started it, a load whose counter is zero starts none, at most d+1
\* nested loads are open below the root call, and the call returns.
C20_DepthTerminates ==
    /\ []((call.active /\ call.depth >= 0) =>
            /\ \A k \in 1..(Len(LICalls) - 1) :
                  /\ LICalls[k + 1].depth < LICalls[k].depth
                  /\ LICalls[k].depth # 0
            /\ \A k \in 1..Len(LICalls) : LICalls[k].depth >= 0
            /\ Len(LICalls) <= call.depth + 2)
    /\ ((call.active /\ call.depth >= 0) ~> outcome.done)

\* a load with depth 2 of nodes in a cycle, three nested loads deep
C20_Witness ==
    /\ call.active /\ call.depth = 2 /\ Len(LICalls) = 4
    /\ LICalls[4].depth = 0
    /\ {Quad(n1, Pd("next"), n2, NilValue), Quad(n2, Pd("next"), n1, NilValue)} \subseteq store

----------------------------------------------------------------------------
(* Claims about type quads, tag names and the registry maps *)

\* the objects of the rdf:type quads a write handed to the writer
TypeObjects(w) ==
    {w.quads[k].Object : k \in {j \in 1..Len(w.quads) :
                                  w.quads[j].Predicate = iri(c, iriType)}}

\* the values a path requires of rdf:type
TypeValues(p) ==
    UNION {p[k].vals : k \in {j \in 1..Len(p) :
                                p[j].op = "has" /\ p[j].pred = iri(c, iriType)}}

\* C21: for a registered type, the object of the type quad WriteAsQuads emits
\* is the value the load path of the type requires of rdf:type, in each IRI
\* mode and for an IRI registered in short or in full form.
C21_TypeQuadMatchesPath ==
    \A k \in 1..Len(wrote) :
        (wrote[k].err = NoErr /\ wrote[k].o.T \in DOMAIN typeToIRI) =>
            TypeObjects(wrote[k]) = TypeValues(FreshPath(wrote[k].o.T, FALSE))

\* the tag names under which a path saves values
SavedTags(p) == {p[k].tag : k \in {j \in 1..Len(p) : p[j].op \in {"tag", "save"}}}

\* the dotted keys of the id and save rules of a type
SavedKeys(rt) ==
    LET rules == rulesFor(c, c.rulesForType, rt).rules IN
    {key \in DOMAIN rules : rules[key].k \in {"id", "save"}}

\* the path makePathForType returns for a load of rt, with the caches as they are
LoadPath(rt) ==
    makePathForType(CurEnv, Caches(c.pathForType, c.pathForTypeRoot), rt, "", FALSE)

\* C22: the tag names under which the path of a type saves its fields, those
\* reached through anonymous embeddings included, are the dotted keys under
\* which rulesFor stores their rules and loadToValue looks their values up,
\* for a path built afresh or taken from the cache, also when a record type
\* is embedded at two positions.
C22_TagsAreKeys ==
    (call.started /\ LoadPath(call.et).err = NoErr) =>
        SavedTags(LoadPath(call.et).p) = SavedKeys(call.et)

\* C23: after any sequence of RegisterType calls, rejected ones and
\* un-registrations of registered and of unregistered IRIs included, the two
\* registry maps are inverse to each other: type T maps to IRI i if and only
\* if the full form of i maps to T, and no type and no full IRI is held twice.
C23_MapsInverse ==
    /\ \A t \in DOMAIN typeToIRI :
          /\ FullIRI(typeToIRI[t]) \in DOMAIN iriToType
          /\ iriToType[FullIRI(typeToIRI[t])] = t
    /\ \A i \in DOMAIN iriToType :
          /\ FullIRI(i) = i
          /\ iriToType[i] \in DOMAIN typeToIRI
          /\ FullIRI(typeToIRI[iriToType[i]]) = i
    /\ Cardinality(DOMAIN typeToIRI) = Cardinality(DOMAIN iriToType)

\* calls of all four kinds have been made and a type is registered under a short IRI
C23_Witness ==
    /\ hist.regLog = {"registered", "rejected", "unregistered", "unregistered nothing"}
    /\ Cardinality(DOMAIN typeToIRI) = 1
    /\ \E t \in DOMAIN typeToIRI : typeToIRI[t].f = "s"

====
